---------------------------- MODULE Spec2Model ----------------------------
(***************************************************************************)
(* InnovateTRIZ: the problem-to-principle recommendation engine, in its    *)
(* two copies: the CLI engine (src/triz_innovation_pro.py) and the web     *)
(* core (src/triz_web_app/backend/triz_core.py).                           *)
(*                                                                         *)
(* Python strings are sequences of Unicode code points, so that lower(),   *)
(* substring tests (the `in` operator), split() and str(list) are computed *)
(* as Python computes them.  Python floats are IEEE-754 doubles; they are  *)
(* represented exactly (see Fl below).                                     *)
(***************************************************************************)
EXTENDS Integers, Sequences, FiniteSets, TLC

(***************************************************************************)
(* Bounds of the model.                                                    *)
(***************************************************************************)
MaxWords == 2        \* a problem text is made of at most MaxWords words
MaxHistory == 3      \* at most MaxHistory sessions are recorded in a run

(***************************************************************************)
(* State.                                                                  *)
(***************************************************************************)
VARIABLES
    engine,            \* "cli" or "web": the engine copy that is running
    is_serverless,     \* web core: VERCEL / LAMBDA_RUNTIME_DIR is set
    config,            \* self.config
    current_language,  \* web: self.current_language; CLI: t.current_language
    history,           \* self.history
    history_file,      \* the sessions last written to history.pkl
    favorites,         \* self.favorites
    last,              \* the last call and what it returned
    first,             \* the first analyze_problem call and what it returned
    app                \* around the engine: innovator.last_problem of the CLI, config.json

vars == <<engine, is_serverless, config, current_language, history,
          history_file, favorites, last, first, app>>

(***************************************************************************)
(* Strings.                                                                *)
(***************************************************************************)
(* str.lower() on one character: Basic Latin, Latin-1 Supplement and Greek *)
(* capitals have a lower-case form 32 code points up; every other          *)
(* character used in the tables and texts (CJK ideographs, punctuation,    *)
(* lower-case letters) is its own lower-case form.                         *)
Lower(c) ==
    IF \/ c \in 65..90
       \/ c \in 192..214
       \/ c \in 216..222
       \/ c \in 913..929
       \/ c \in 931..939
    THEN c + 32
    ELSE c

LowerStr(s) == [i \in 1..Len(s) |-> Lower(s[i])]

(* Python `sub in s` on strings *)
Contains(sub, s) ==
    \E i \in 0..(Len(s) - Len(sub)) : SubSeq(s, i + 1, i + Len(sub)) = sub

(* str.isspace() for the characters str.split() separates on *)
IsSpace(c) ==
    \/ c \in {9, 10, 11, 12, 13, 28, 29, 30, 31, 32, 133, 160, 5760}
    \/ c \in 8192..8202
    \/ c \in {8232, 8233, 8239, 8287, 12288}

(* str.split() without arguments: the maximal runs of non-space characters *)
RECURSIVE SplitFrom(_, _, _)
SplitFrom(s, i, word) ==
    IF i > Len(s)
    THEN IF word = <<>> THEN <<>> ELSE <<word>>
    ELSE IF IsSpace(s[i])
         THEN IF word = <<>>
              THEN SplitFrom(s, i + 1, <<>>)
              ELSE <<word>> \o SplitFrom(s, i + 1, <<>>)
         ELSE SplitFrom(s, i + 1, Append(word, s[i]))

Split(s) == SplitFrom(s, 1, <<>>)

(* str(list_of_str): "['a', 'b']"  (39 = quote, 44 = comma, 32 = space,    *)
(* 91 and 93 = brackets); no table string needs escaping in its repr       *)
RECURSIVE StrOfItems(_, _)
StrOfItems(xs, i) ==
    IF i > Len(xs) THEN <<>>
    ELSE (IF i > 1 THEN <<44, 32>> ELSE <<>>) \o <<39>> \o xs[i] \o <<39>>
         \o StrOfItems(xs, i + 1)

StrOfList(xs) == <<91>> \o StrOfItems(xs, 1) \o <<93>>

(***************************************************************************)
(* Floats.  A double x is the record [h, d] with                           *)
(*     x = (h * 2^54 + d) / (25 * 2^56),                                   *)
(* that is h hundredths plus d units of 2^-56 / 25, so that every double   *)
(* in [0.0625, 2) and 0 has an integer d, and the decimal h / 100 has      *)
(* d = 0.  Sums and products are computed exactly and then rounded to the  *)
(* nearest double, ties to even, as IEEE-754 arithmetic does.              *)
(***************************************************************************)
Fl(h, d) == [h |-> h, d |-> d]

(* 2^54 modulo m, as the square of 2^27 modulo m *)
Pow54Mod(m) == ((134217728 % m) * (134217728 % m)) % m

(* the spacing of the doubles around a, in units of 2^-56 / 25 *)
Ulp(a) ==
    IF a.h > 100 \/ (a.h = 100 /\ a.d >= 0) THEN 400       \* [1, 2)
    ELSE IF a.h > 50 \/ (a.h = 50 /\ a.d >= 0) THEN 200    \* [0.5, 1)
    ELSE IF a.h > 25 \/ (a.h = 25 /\ a.d >= 0) THEN 100    \* [0.25, 0.5)
    ELSE IF a.h >= 13 THEN 50                              \* [0.125, 0.25)
    ELSE 25                                                \* [0.0625, 0.125)

(* round an exact value to the nearest double, ties to even *)
Round(a) ==
    LET u == Ulp(a)
        n == ((a.h % (2 * u)) * Pow54Mod(2 * u) + a.d) % (2 * u)
        r == n % u
    IN  IF r = 0 THEN a
        ELSE IF 2 * r < u THEN Fl(a.h, a.d - r)
        ELSE IF 2 * r > u THEN Fl(a.h, a.d + (u - r))
        ELSE IF n = r THEN Fl(a.h, a.d - r)
        ELSE Fl(a.h, a.d + (u - r))

FloatAdd(a, b) == Round(Fl(a.h + b.h, a.d + b.d))
FloatMulInt(k, a) == Round(Fl(k * a.h, k * a.d))
FloatLess(a, b) == a.h < b.h \/ (a.h = b.h /\ a.d < b.d)
FloatLeq(a, b) == ~FloatLess(b, a)
(* Python min(a, b): b if b < a, else a *)
FloatMin(a, b) == IF FloatLess(b, a) THEN b ELSE a

F0 == Fl(0, 0)          \* 0 and 0.0
F01 == Fl(10, 10)       \* the double written 0.1
F02 == Fl(20, 20)       \* 0.2
F03 == Fl(30, -20)      \* 0.3
F06 == Fl(60, -40)      \* 0.6
F095 == Fl(95, -80)     \* 0.95
F1 == Fl(100, 0)        \* 1.0

(***************************************************************************)
(* The knowledge tables of the two engine copies.                          *)
(***************************************************************************)
(* triz_innovation_pro.py _load_principles: id -> name, keywords, examples (characters as code points) *)
CliPrinciples ==
    1 :> [name |-> <<194, 224, 220, 194, 226, 8804>>,  \* ÂàÜÂâ≤
           keywords |-> <<<<202, 174, 176, 194, 249, 243>>, <<193, 170, 209, 8240, 170, 8706>>, <<194, 224, 220, 193, 182, 170>>, <<193, 227, 168, 193, 180, 227>>, <<202, 227, 220, 194, 224, 220>>>>,  \* Ê®°Âùó ÁªÑ‰ª∂ ÂàÜÁ¶ª Áã¨Á´ã ÊãÜÂàÜ
           examples |-> <<<<202, 174, 176, 194, 249, 243, 194, 229, 241, 203, 198, 230, 203, 198, 176>>, <<194, 232, 216, 202, 227, 220, 194, 231, 8719, 194, 198, 8706, 194, 214, 8721>>, <<193, 170, 209, 8240, 170, 8706, 194, 229, 241, 203, 937, 216, 8240, 170, 8706, 202, 251, 8706, 202, 251, 209>>, <<194, 230, 198, 202, 250, 231, 194, 228, 176, 202, 251, 8706, 202, 251, 209>>>>]  \* Ê®°ÂùóÂåñËÆæËÆ° ÂèØÊãÜÂç∏ÂÆ∂ÂÖ∑ ÁªÑ‰ª∂ÂåñËΩØ‰ª∂Êû∂ÊûÑ ÂæÆÊúçÂä°Êû∂ÊûÑ
 @@ 2 :> [name |-> <<202, 228, 937, 194, 232, 241>>,  \* ÊäΩÂèñ
           keywords |-> <<<<202, 232, 234, 194, 232, 241>>, <<194, 224, 220, 193, 182, 170>>, <<194, 225, 196, 194, 229, 241>>, <<200, 246, 238, 193, 182, 170>>, <<193, 8800, 245, 200, 196, 226>>>>,  \* ÊèêÂèñ ÂàÜÁ¶ª ÂáÄÂåñ ÈöîÁ¶ª Á≠õÈÄâ
           examples |-> <<<<194, 244, 8482, 200, 252, 8805, 202, 8706, 224, 200, 244, 167>>, <<202, 249, 199, 203, 165, 174, 203, 248, 225, 202, 170, 167>>, <<202, 8224, 8719, 194, 248, 201, 194, 228, 252, 203, 201, 937, 202, 232, 234, 194, 232, 241>>, <<194, 186, 199, 194, 8719, 8719, 194, 167, 209, 193, 234, 220, 200, 246, 238, 193, 182, 170>>>>]  \* Âô™Èü≥Ê∂àÈô§ ÊùÇË¥®ËøáÊª§ Ê†∏ÂøÉÂäüËÉΩÊèêÂèñ ÂºÇÂ∏∏Â§ÑÁêÜÈöîÁ¶ª
 @@ 15 :> [name |-> <<194, 228, 174, 202, 196, 197, 202, 196, 223>>,  \* Âä®ÊÄÅÊÄß
           keywords |-> <<<<194, 228, 174, 202, 196, 197>>, <<203, 225, 8482, 200, 196, 199, 194, 8747, 238>>, <<203, 8734, 201, 202, 239, 165>>, <<194, 232, 242, 194, 229, 241>>, <<194, 236, 231, 194, 8747, 238>>>>,  \* Âä®ÊÄÅ Ëá™ÈÄÇÂ∫î Ë∞ÉÊï¥ ÂèòÂåñ ÂìçÂ∫î
           examples |-> <<<<203, 225, 8482, 200, 196, 199, 194, 8747, 238, 193, 8805, 170, 193, 170, 252>>, <<194, 228, 174, 202, 196, 197, 203, 8734, 201, 202, 239, 165>>, <<202, 244, 8747, 203, 201, 937, 194, 236, 231, 194, 8747, 238>>, <<194, 186, 960, 202, 196, 223, 8240, 186, 8719, 193, 186, 169>>>>]  \* Ëá™ÈÄÇÂ∫îÁ≥ªÁªü Âä®ÊÄÅË∞ÉÊï¥ Êô∫ËÉΩÂìçÂ∫î ÂºπÊÄß‰º∏Áº©
 @@ 27 :> [name |-> <<194, 170, 226, 8240, 170, 8721, 202, 245, 248, 8240, 170, 163>>,  \* Âªâ‰ª∑Êõø‰ª£
           keywords |-> <<<<194, 170, 226, 8240, 170, 8721>>, <<202, 245, 248, 8240, 170, 163>>, <<193, 170, 232, 202, 181, 233>>, <<8240, 937, 233, 202, 224, 234, 202, 250, 168>>, <<193, 198, 196, 194, 229, 241>>>>,  \* Âªâ‰ª∑ Êõø‰ª£ ÁªèÊµé ‰ΩéÊàêÊú¨ ÁÆÄÂåñ
           examples |-> <<<<194, 186, 196, 202, 8747, 234, 202, 245, 248, 8240, 170, 163>>, <<8240, 937, 233, 202, 224, 234, 202, 250, 168, 202, 241, 960, 202, 176, 224>>, <<193, 198, 196, 194, 229, 241, 193, 226, 224, 202, 250, 168>>, <<193, 170, 232, 202, 181, 233, 194, 251, 227, 203, 198, 230, 203, 198, 176>>>>]  \* ÂºÄÊ∫êÊõø‰ª£ ‰ΩéÊàêÊú¨ÊñπÊ°à ÁÆÄÂåñÁâàÊú¨ ÁªèÊµéÂûãËÆæËÆ°
 @@ 35 :> [name |-> <<194, 232, 199, 202, 239, 8734, 202, 238, 960, 194, 232, 242>>,  \* ÂèÇÊï∞ÊîπÂèò
           keywords |-> <<<<193, 228, 8706, 202, 196, 197>>, <<194, 232, 199, 202, 239, 8734>>, <<203, 937, 168, 202, 231, 162>>, <<203, 8734, 201, 202, 239, 165>>, <<8240, 248, 198, 202, 238, 960>>>>,  \* Áä∂ÊÄÅ ÂèÇÊï∞ ËΩ¨Êç¢ Ë∞ÉÊï¥ ‰øÆÊîπ
           examples |-> <<<<193, 228, 8706, 202, 196, 197, 203, 937, 168, 202, 231, 162>>, <<194, 232, 199, 202, 239, 8734, 203, 8734, 201, 202, 239, 165>>, <<193, 245, 8719, 194, 232, 242, 194, 224, 169, 193, 238, 174>>, <<194, 177, 251, 202, 196, 223, 8240, 248, 198, 202, 238, 960>>>>]  \* Áä∂ÊÄÅËΩ¨Êç¢ ÂèÇÊï∞Ë∞ÉÊï¥ Áõ∏ÂèòÂà©Áî® Â±ûÊÄß‰øÆÊîπ
 @@ 40 :> [name |-> <<194, 167, 231, 194, 234, 224, 202, 249, 234, 202, 241, 244>>,  \* Â§çÂêàÊùêÊñô
           keywords |-> <<<<194, 167, 231, 194, 234, 224>>, <<194, 167, 246, 194, 177, 199>>, <<202, 8721, 8721, 194, 234, 224>>, <<193, 170, 209, 194, 234, 224>>, <<194, 167, 231, 202, 249, 199>>>>,  \* Â§çÂêà Â§öÂ±Ç Ê∑∑Âêà ÁªÑÂêà Â§çÊùÇ
           examples |-> <<<<194, 167, 231, 194, 234, 224, 202, 249, 234, 202, 241, 244>>, <<194, 167, 246, 194, 177, 199, 193, 170, 236, 202, 251, 209>>, <<202, 8721, 8721, 194, 234, 224, 193, 8805, 170, 193, 170, 252>>, <<193, 170, 209, 194, 234, 224, 202, 241, 960, 202, 176, 224>>>>]  \* Â§çÂêàÊùêÊñô Â§öÂ±ÇÁªìÊûÑ Ê∑∑ÂêàÁ≥ªÁªü ÁªÑÂêàÊñπÊ°à

(* triz_innovation_pro.py _load_matrix *)
CliMatrix == <<
    [key |-> <<<<200, 225, 231, 200, 225, 232>>, <<194, 186, 8747, 194, 8747, 182>>>>, ids |-> <<1, 8, 15, 40>>],  \* (ÈáçÈáè, Âº∫Â∫¶)
    [key |-> <<<<200, 225, 231, 200, 225, 232>>, <<200, 196, 252, 194, 8747, 182>>>>, ids |-> <<2, 14, 15, 35>>],  \* (ÈáçÈáè, ÈÄüÂ∫¶)
    [key |-> <<<<194, 186, 8747, 194, 8747, 182>>, <<200, 225, 231, 200, 225, 232>>>>, ids |-> <<1, 8, 36, 40>>],  \* (Âº∫Â∫¶, ÈáçÈáè)
    [key |-> <<<<194, 167, 231, 202, 249, 199, 202, 196, 223>>, <<194, 232, 216, 200, 249, 8224, 202, 196, 223>>>>, ids |-> <<1, 26, 27, 40>>],  \* (Â§çÊùÇÊÄß, ÂèØÈù†ÊÄß)
    [key |-> <<<<193, 8804, 230, 194, 8747, 182>>, <<200, 196, 252, 194, 8747, 182>>>>, ids |-> <<10, 18, 32, 39>>],  \* (Á≤æÂ∫¶, ÈÄüÂ∫¶)
    [key |-> <<<<202, 224, 234, 202, 250, 168>>, <<203, 165, 174, 200, 225, 232>>>>, ids |-> <<13, 26, 27, 35>>],  \* (ÊàêÊú¨, Ë¥®Èáè)
    [key |-> <<<<203, 201, 937, 203, 196, 243>>, <<202, 239, 224, 193, 233, 225>>>>, ids |-> <<2, 6, 19, 36>>],  \* (ËÉΩËÄó, ÊïàÁéá)
    [key |-> <<<<8240, 937, 236, 193, 223, 216>>, <<194, 228, 252, 203, 201, 937>>>>, ids |-> <<7, 17, 29, 40>>],  \* (‰ΩìÁßØ, ÂäüËÉΩ)
    [key |-> <<<<200, 196, 252, 194, 8747, 182>>, <<193, 8804, 230, 194, 8747, 182>>>>, ids |-> <<10, 18, 32, 39>>],  \* (ÈÄüÂ∫¶, Á≤æÂ∫¶)
    [key |-> <<<<194, 198, 226, 194, 214, 174>>, <<8240, 230, 248, 194, 224, 169>>>>, ids |-> <<11, 24, 25, 35>>],  \* (ÂÆâÂÖ®, ‰æøÂà©)
    [key |-> <<<<203, 225, 8482, 194, 228, 174, 194, 229, 241>>, <<202, 224, 234, 202, 250, 168>>>>, ids |-> <<25, 26, 27, 35>>],  \* (Ëá™Âä®Âåñ, ÊàêÊú¨)
    [key |-> <<<<202, 244, 8747, 203, 201, 937, 194, 229, 241>>, <<194, 232, 216, 200, 249, 8224, 202, 196, 223>>>>, ids |-> <<15, 23, 25, 35>>]  \* (Êô∫ËÉΩÂåñ, ÂèØÈù†ÊÄß)
    >>

(* triz_innovation_pro.py _load_parameter_keywords, in dictionary order *)
CliParameterKeywords == <<
    [param |-> <<200, 225, 231, 200, 225, 232>>, keywords |-> <<<<200, 225, 231>>, <<203, 937, 170>>, <<203, 165, 174, 200, 225, 232>>, <<200, 225, 231, 200, 225, 232>>, <<203, 937, 937, 200, 225, 231>>>>],  \* ÈáçÈáè: Èáç ËΩª Ë¥®Èáè ÈáçÈáè ËΩΩÈáç
    [param |-> <<194, 186, 8747, 194, 8747, 182>>, keywords |-> <<<<194, 186, 8747, 194, 8747, 182>>, <<193, 176, 168, 194, 8747, 182>>, <<194, 224, 246, 202, 196, 223>>, <<194, 249, 246, 194, 245, 8747>>, <<203, 196, 234, 193, 238, 174>>>>],  \* Âº∫Â∫¶: Âº∫Â∫¶ Á°¨Â∫¶ ÂàöÊÄß ÂùöÂõ∫ ËÄêÁî®
    [param |-> <<200, 196, 252, 194, 8747, 182>>, keywords |-> <<<<194, 248, 180>>, <<202, 214, 162>>, <<200, 196, 252, 194, 8747, 182>>, <<202, 239, 224, 193, 233, 225>>, <<194, 236, 231, 194, 8747, 238>>>>],  \* ÈÄüÂ∫¶: Âø´ ÊÖ¢ ÈÄüÂ∫¶ ÊïàÁéá ÂìçÂ∫î
    [param |-> <<193, 8804, 230, 194, 8747, 182>>, keywords |-> <<<<193, 8804, 230, 193, 176, 198>>, <<194, 225, 220, 193, 176, 198>>, <<193, 8804, 230, 194, 8747, 182>>, <<203, 216, 216, 194, 8721, 198>>, <<194, 197, 232, 194, 8721, 198>>>>],  \* Á≤æÂ∫¶: Á≤æÁ°Æ ÂáÜÁ°Æ Á≤æÂ∫¶ ËØØÂ∑Æ ÂÅèÂ∑Æ
    [param |-> <<202, 224, 234, 202, 250, 168>>, keywords |-> <<<<8240, 170, 8721, 202, 8224, 186>>, <<203, 165, 960, 193, 238, 174>>, <<202, 224, 234, 202, 250, 168>>, <<8240, 230, 248, 194, 198, 250>>, <<202, 242, 199, 203, 165, 181>>>>],  \* ÊàêÊú¨: ‰ª∑Ê†º Ë¥πÁî® ÊàêÊú¨ ‰æøÂÆú ÊòÇË¥µ
    [param |-> <<203, 165, 174, 200, 225, 232>>, keywords |-> <<<<203, 165, 174, 200, 225, 232>>, <<194, 236, 197, 203, 165, 174>>, <<8240, 186, 242, 203, 165, 174>>, <<194, 232, 216, 200, 249, 8224>>, <<193, 174, 8805, 194, 198, 246>>>>],  \* Ë¥®Èáè: Ë¥®Èáè ÂìÅË¥® ‰ºòË¥® ÂèØÈù† Á®≥ÂÆö
    [param |-> <<194, 167, 231, 202, 249, 199, 202, 196, 223>>, keywords |-> <<<<194, 167, 231, 202, 249, 199>>, <<193, 198, 196, 194, 231, 239>>, <<194, 167, 231, 202, 249, 199, 194, 8747, 182>>, <<200, 246, 230, 194, 8747, 182>>, <<193, 960, 197, 193, 234, 234>>>>],  \* Â§çÊùÇÊÄß: Â§çÊùÇ ÁÆÄÂçï Â§çÊùÇÂ∫¶ ÈöæÂ∫¶ ÁπÅÁêê
    [param |-> <<8240, 937, 236, 193, 223, 216>>, keywords |-> <<<<194, 167, 223, 194, 8734, 232>>, <<8240, 937, 236, 193, 223, 216>>, <<194, 8734, 8747, 194, 216, 8719>>, <<194, 231, 8224, 194, 250, 8734>>, <<193, 169, 8747, 200, 243, 165>>>>],  \* ‰ΩìÁßØ: Â§ßÂ∞è ‰ΩìÁßØ Â∞∫ÂØ∏ Âç†Âú∞ Á©∫Èó¥
    [param |-> <<194, 198, 226, 194, 214, 174>>, keywords |-> <<<<194, 198, 226, 194, 214, 174>>, <<194, 231, 177, 200, 244, 169>>, <<200, 163, 233, 200, 244, 169>>, <<8240, 248, 249, 202, 228, 167>>, <<200, 242, 8804, 202, 228, 167>>>>],  \* ÂÆâÂÖ®: ÂÆâÂÖ® Âç±Èô© È£éÈô© ‰øùÊä§ Èò≤Êä§
    [param |-> <<202, 239, 224, 193, 233, 225>>, keywords |-> <<<<202, 239, 224, 193, 233, 225>>, <<202, 196, 223, 203, 201, 937>>, <<193, 238, 252, 8240, 8747, 223, 193, 233, 225>>, <<194, 234, 251, 194, 234, 234, 200, 225, 232>>, <<8240, 8747, 223, 203, 201, 937>>>>]  \* ÊïàÁéá: ÊïàÁéá ÊÄßËÉΩ Áîü‰∫ßÁéá ÂêûÂêêÈáè ‰∫ßËÉΩ
    >>

(* triz_innovation_pro.py _load_problem_categories, in dictionary order *)
CliProblemCategories == <<
    [category |-> <<202, 228, 196, 202, 250, 216, 200, 243, 198, 200, 162, 242>>, keywords |-> <<<<202, 228, 196, 202, 250, 216>>, <<193, 8805, 170, 193, 170, 252>>, <<203, 198, 230, 194, 167, 225>>, <<202, 250, 8747, 194, 244, 174>>, <<193, 198, 243, 202, 8805, 239>>, <<203, 937, 216, 8240, 170, 8706>>>>],  \* ÊäÄÊúØÈóÆÈ¢ò: ÊäÄÊúØ Á≥ªÁªü ËÆæÂ§á Êú∫Âô® ÁÆóÊ≥ï ËΩØ‰ª∂
    [category |-> <<203, 198, 230, 203, 198, 176, 200, 243, 198, 200, 162, 242>>, keywords |-> <<<<203, 198, 230, 203, 198, 176>>, <<194, 167, 241, 203, 223, 199>>, <<193, 170, 236, 202, 251, 209>>, <<194, 8719, 201, 194, 177, 196>>, <<193, 239, 229, 200, 249, 162>>, <<200, 196, 8224, 194, 251, 227>>>>],  \* ËÆæËÆ°ÈóÆÈ¢ò: ËÆæËÆ° Â§ñËßÇ ÁªìÊûÑ Â∏ÉÂ±Ä ÁïåÈù¢ ÈÄ†Âûã
    [category |-> <<202, 224, 234, 202, 250, 168, 200, 243, 198, 200, 162, 242>>, keywords |-> <<<<202, 224, 234, 202, 250, 168>>, <<8240, 170, 8721, 202, 8224, 186>>, <<203, 165, 960, 193, 238, 174>>, <<200, 162, 209, 193, 198, 243>>, <<193, 170, 232, 202, 181, 233>>, <<202, 228, 239, 203, 181, 209>>>>],  \* ÊàêÊú¨ÈóÆÈ¢ò: ÊàêÊú¨ ‰ª∑Ê†º Ë¥πÁî® È¢ÑÁÆó ÁªèÊµé ÊäïËµÑ
    [category |-> <<193, 238, 174, 202, 224, 8721, 200, 243, 198, 200, 162, 242>>, keywords |-> <<<<193, 238, 174, 202, 224, 8721>>, <<194, 198, 162, 202, 224, 8721>>, <<8240, 937, 236, 200, 8482, 229>>, <<200, 250, 196, 202, 177, 199>>, <<202, 170, 176, 202, 209, 232>>, <<8240, 937, 248, 193, 238, 174>>>>],  \* Áî®Êà∑ÈóÆÈ¢ò: Áî®Êà∑ ÂÆ¢Êà∑ ‰ΩìÈ™å ÈúÄÊ±Ç Êª°ÊÑè ‰ΩøÁî®
    [category |-> <<203, 165, 174, 200, 225, 232, 200, 243, 198, 200, 162, 242>>, keywords |-> <<<<203, 165, 174, 200, 225, 232>>, <<193, 186, 8747, 200, 244, 8721>>, <<202, 239, 214, 200, 246, 250>>, <<200, 238, 244, 203, 216, 216>>, <<200, 243, 198, 200, 162, 242>>, <<8240, 8719, 231, 203, 226, 216>>>>]  \* Ë¥®ÈáèÈóÆÈ¢ò: Ë¥®Èáè Áº∫Èô∑ ÊïÖÈöú ÈîôËØØ ÈóÆÈ¢ò ‰∏çËâØ
    >>

(* triz_innovation_pro.py _get_smart_recommendations: recommendations *)
CliRecommendations == <<
    [category |-> <<84, 101, 99, 104, 110, 105, 99, 97, 108, 32, 80, 114, 111, 98, 108, 101, 109>>, ids |-> <<1, 2, 15, 35, 40>>],  \* Technical Problem
    [category |-> <<68, 101, 115, 105, 103, 110, 32, 80, 114, 111, 98, 108, 101, 109>>, ids |-> <<1, 15, 27, 35, 40>>],  \* Design Problem
    [category |-> <<67, 111, 115, 116, 32, 80, 114, 111, 98, 108, 101, 109>>, ids |-> <<27, 35, 1, 2, 40>>],  \* Cost Problem
    [category |-> <<85, 115, 101, 114, 32, 80, 114, 111, 98, 108, 101, 109>>, ids |-> <<15, 35, 1, 27, 40>>],  \* User Problem
    [category |-> <<81, 117, 97, 108, 105, 116, 121, 32, 80, 114, 111, 98, 108, 101, 109>>, ids |-> <<1, 2, 15, 35, 40>>]  \* Quality Problem
    >>

(* triz_core.py _load_principles: id -> name, keywords, examples per language (characters as code points) *)
WebPrinciples ==
    1 :> [name |-> [zh |-> <<20998, 21106>>, en |-> <<83, 101, 103, 109, 101, 110, 116, 97, 116, 105, 111, 110>>],  \* 分割 / Segmentation
           keywords |-> <<<<27169, 22359>>, <<32452, 20214>>, <<20998, 31163>>, <<29420, 31435>>, <<25286, 20998>>>>,  \* 模块 组件 分离 独立 拆分
           examples |-> [zh |-> <<<<27169, 22359, 21270, 35774, 35745>>, <<21487, 25286, 21368, 23478, 20855>>, <<32452, 20214, 21270, 36719, 20214, 26550, 26500>>, <<24494, 26381, 21153, 26550, 26500>>>>,  \* 模块化设计 可拆卸家具 组件化软件架构 微服务架构
                         en |-> <<<<77, 111, 100, 117, 108, 97, 114, 32, 100, 101, 115, 105, 103, 110>>, <<68, 101, 116, 97, 99, 104, 97, 98, 108, 101, 32, 102, 117, 114, 110, 105, 116, 117, 114, 101>>, <<67, 111, 109, 112, 111, 110, 101, 110, 116, 32, 97, 114, 99, 104, 105, 116, 101, 99, 116, 117, 114, 101>>, <<77, 105, 99, 114, 111, 115, 101, 114, 118, 105, 99, 101, 115>>>>]]  \* Modular design, Detachable furniture, Component architecture, Microservices
 @@ 2 :> [name |-> [zh |-> <<25277, 21462>>, en |-> <<84, 97, 107, 105, 110, 103, 32, 111, 117, 116>>],  \* 抽取 / Taking out
           keywords |-> <<<<25552, 21462>>, <<20998, 31163>>, <<20928, 21270>>, <<38548, 31163>>, <<31579, 36873>>>>,  \* 提取 分离 净化 隔离 筛选
           examples |-> [zh |-> <<<<22122, 38899, 28040, 38500>>, <<26434, 36136, 36807, 28388>>, <<26680, 24515, 21151, 33021, 25552, 21462>>, <<24322, 24120, 22788, 29702, 38548, 31163>>>>,  \* 噪音消除 杂质过滤 核心功能提取 异常处理隔离
                         en |-> <<<<78, 111, 105, 115, 101, 32, 99, 97, 110, 99, 101, 108, 108, 97, 116, 105, 111, 110>>, <<73, 109, 112, 117, 114, 105, 116, 121, 32, 102, 105, 108, 116, 101, 114, 105, 110, 103>>, <<67, 111, 114, 101, 32, 102, 117, 110, 99, 116, 105, 111, 110, 32, 101, 120, 116, 114, 97, 99, 116, 105, 111, 110>>, <<69, 120, 99, 101, 112, 116, 105, 111, 110, 32, 105, 115, 111, 108, 97, 116, 105, 111, 110>>>>]]  \* Noise cancellation, Impurity filtering, Core function extraction, Exception isolation
 @@ 3 :> [name |-> [zh |-> <<23616, 37096, 36136, 37327>>, en |-> <<76, 111, 99, 97, 108, 32, 113, 117, 97, 108, 105, 116, 121>>],  \* 局部质量 / Local quality
           keywords |-> <<<<24046, 24322>>, <<23450, 21046>>, <<23616, 37096>>, <<19987, 29992>>, <<36866, 37197>>>>,  \* 差异 定制 局部 专用 适配
           examples |-> [zh |-> <<<<20154, 20307, 24037, 23398, 35774, 35745>>, <<24046, 24322, 21270, 26381, 21153>>, <<23450, 21046, 21270, 21151, 33021>>, <<23616, 37096, 20248, 21270>>>>,  \* 人体工学设计 差异化服务 定制化功能 局部优化
                         en |-> <<<<69, 114, 103, 111, 110, 111, 109, 105, 99, 32, 100, 101, 115, 105, 103, 110>>, <<68, 105, 102, 102, 101, 114, 101, 110, 116, 105, 97, 116, 101, 100, 32, 115, 101, 114, 118, 105, 99, 101, 115>>, <<67, 117, 115, 116, 111, 109, 105, 122, 101, 100, 32, 102, 117, 110, 99, 116, 105, 111, 110, 115>>, <<76, 111, 99, 97, 108, 32, 111, 112, 116, 105, 109, 105, 122, 97, 116, 105, 111, 110>>>>]]  \* Ergonomic design, Differentiated services, Customized functions, Local optimization
 @@ 4 :> [name |-> [zh |-> <<19981, 23545, 31216>>, en |-> <<65, 115, 121, 109, 109, 101, 116, 114, 121>>],  \* 不对称 / Asymmetry
           keywords |-> <<<<19981, 23545, 31216>>, <<20542, 26012>>, <<20559, 31227>>, <<38750, 22343, 21248>>, <<24046, 24322>>>>,  \* 不对称 倾斜 偏移 非均匀 差异
           examples |-> [zh |-> <<<<19981, 23545, 31216, 35774, 35745>>, <<24046, 24322, 21270, 24067, 23616>>, <<38750, 22343, 21248, 20998, 24067>>, <<20542, 26012, 32467, 26500>>>>,  \* 不对称设计 差异化布局 非均匀分布 倾斜结构
                         en |-> <<<<65, 115, 121, 109, 109, 101, 116, 114, 105, 99, 32, 100, 101, 115, 105, 103, 110>>, <<68, 105, 102, 102, 101, 114, 101, 110, 116, 105, 97, 108, 32, 108, 97, 121, 111, 117, 116>>, <<78, 111, 110, 45, 117, 110, 105, 102, 111, 114, 109, 32, 100, 105, 115, 116, 114, 105, 98, 117, 116, 105, 111, 110>>, <<84, 105, 108, 116, 101, 100, 32, 115, 116, 114, 117, 99, 116, 117, 114, 101>>>>]]  \* Asymmetric design, Differential layout, Non-uniform distribution, Tilted structure
 @@ 5 :> [name |-> [zh |-> <<21512, 24182>>, en |-> <<77, 101, 114, 103, 105, 110, 103>>],  \* 合并 / Merging
           keywords |-> <<<<21512, 24182>>, <<25972, 21512>>, <<32479, 19968>>, <<38598, 25104>>, <<34701, 21512>>>>,  \* 合并 整合 统一 集成 融合
           examples |-> [zh |-> <<<<21151, 33021, 21512, 24182>>, <<36164, 28304, 25972, 21512>>, <<32479, 19968, 25509, 21475>>, <<38598, 25104, 35774, 35745>>>>,  \* 功能合并 资源整合 统一接口 集成设计
                         en |-> <<<<70, 117, 110, 99, 116, 105, 111, 110, 32, 109, 101, 114, 103, 105, 110, 103>>, <<82, 101, 115, 111, 117, 114, 99, 101, 32, 105, 110, 116, 101, 103, 114, 97, 116, 105, 111, 110>>, <<85, 110, 105, 102, 105, 101, 100, 32, 105, 110, 116, 101, 114, 102, 97, 99, 101>>, <<73, 110, 116, 101, 103, 114, 97, 116, 101, 100, 32, 100, 101, 115, 105, 103, 110>>>>]]  \* Function merging, Resource integration, Unified interface, Integrated design
 @@ 6 :> [name |-> [zh |-> <<36890, 29992, 24615>>, en |-> <<85, 110, 105, 118, 101, 114, 115, 97, 108, 105, 116, 121>>],  \* 通用性 / Universality
           keywords |-> <<<<36890, 29992>>, <<22810, 21151, 33021>>, <<19975, 33021>>, <<26631, 20934>>, <<20860, 23481>>>>,  \* 通用 多功能 万能 标准 兼容
           examples |-> [zh |-> <<<<22810, 21151, 33021, 24037, 20855>>, <<36890, 29992, 25509, 21475>>, <<24179, 21488, 21270, 35774, 35745>>, <<26631, 20934, 21270, 32452, 20214>>>>,  \* 多功能工具 通用接口 平台化设计 标准化组件
                         en |-> <<<<77, 117, 108, 116, 105, 45, 102, 117, 110, 99, 116, 105, 111, 110, 32, 116, 111, 111, 108, 115>>, <<85, 110, 105, 118, 101, 114, 115, 97, 108, 32, 105, 110, 116, 101, 114, 102, 97, 99, 101>>, <<80, 108, 97, 116, 102, 111, 114, 109, 32, 100, 101, 115, 105, 103, 110>>, <<83, 116, 97, 110, 100, 97, 114, 100, 105, 122, 101, 100, 32, 99, 111, 109, 112, 111, 110, 101, 110, 116, 115>>>>]]  \* Multi-function tools, Universal interface, Platform design, Standardized components
 @@ 7 :> [name |-> [zh |-> <<23884, 22871>>, en |-> <<78, 101, 115, 116, 105, 110, 103>>],  \* 嵌套 / Nesting
           keywords |-> <<<<23884, 22871>>, <<23618, 27425>>, <<36882, 24402>>, <<21253, 21547>>, <<20869, 23884>>>>,  \* 嵌套 层次 递归 包含 内嵌
           examples |-> [zh |-> <<<<23884, 22871, 32467, 26500>>, <<23618, 27425, 35774, 35745>>, <<36882, 24402, 35843, 29992>>, <<20998, 23618, 26550, 26500>>>>,  \* 嵌套结构 层次设计 递归调用 分层架构
                         en |-> <<<<78, 101, 115, 116, 101, 100, 32, 115, 116, 114, 117, 99, 116, 117, 114, 101>>, <<72, 105, 101, 114, 97, 114, 99, 104, 105, 99, 97, 108, 32, 100, 101, 115, 105, 103, 110>>, <<82, 101, 99, 117, 114, 115, 105, 118, 101, 32, 99, 97, 108, 108, 115>>, <<76, 97, 121, 101, 114, 101, 100, 32, 97, 114, 99, 104, 105, 116, 101, 99, 116, 117, 114, 101>>>>]]  \* Nested structure, Hierarchical design, Recursive calls, Layered architecture
 @@ 8 :> [name |-> [zh |-> <<21453, 37325, 37327>>, en |-> <<65, 110, 116, 105, 45, 119, 101, 105, 103, 104, 116>>],  \* 反重量 / Anti-weight
           keywords |-> <<<<24179, 34913>>, <<28014, 21147>>, <<21453, 21521>>, <<34917, 20607>>, <<25269, 28040>>>>,  \* 平衡 浮力 反向 补偿 抵消
           examples |-> [zh |-> <<<<37325, 37327, 24179, 34913>>, <<28014, 21147, 21033, 29992>>, <<21453, 21521, 21147>>, <<24179, 34913, 35774, 35745>>>>,  \* 重量平衡 浮力利用 反向力 平衡设计
                         en |-> <<<<87, 101, 105, 103, 104, 116, 32, 98, 97, 108, 97, 110, 99, 101>>, <<66, 117, 111, 121, 97, 110, 99, 121, 32, 117, 116, 105, 108, 105, 122, 97, 116, 105, 111, 110>>, <<67, 111, 117, 110, 116, 101, 114, 32, 102, 111, 114, 99, 101>>, <<66, 97, 108, 97, 110, 99, 101, 100, 32, 100, 101, 115, 105, 103, 110>>>>]]  \* Weight balance, Buoyancy utilization, Counter force, Balanced design
 @@ 9 :> [name |-> [zh |-> <<39044, 20808, 21453, 20316, 29992>>, en |-> <<80, 114, 101, 108, 105, 109, 105, 110, 97, 114, 121, 32, 97, 110, 116, 105, 45, 97, 99, 116, 105, 111, 110>>],  \* 预先反作用 / Preliminary anti-action
           keywords |-> <<<<39044, 20808>>, <<21453, 21521>>, <<39044, 38450>>, <<34917, 20607>>, <<25552, 21069>>>>,  \* 预先 反向 预防 补偿 提前
           examples |-> [zh |-> <<<<39044, 38450, 25514, 26045>>, <<39044, 20808, 34917, 20607>>, <<21453, 21521, 25805, 20316>>, <<25552, 21069, 22788, 29702>>>>,  \* 预防措施 预先补偿 反向操作 提前处理
                         en |-> <<<<80, 114, 101, 118, 101, 110, 116, 105, 118, 101, 32, 109, 101, 97, 115, 117, 114, 101, 115>>, <<80, 114, 101, 45, 99, 111, 109, 112, 101, 110, 115, 97, 116, 105, 111, 110>>, <<82, 101, 118, 101, 114, 115, 101, 32, 111, 112, 101, 114, 97, 116, 105, 111, 110>>, <<65, 100, 118, 97, 110, 99, 101, 32, 112, 114, 111, 99, 101, 115, 115, 105, 110, 103>>>>]]  \* Preventive measures, Pre-compensation, Reverse operation, Advance processing
 @@ 10 :> [name |-> [zh |-> <<39044, 20808, 20316, 29992>>, en |-> <<80, 114, 101, 108, 105, 109, 105, 110, 97, 114, 121, 32, 97, 99, 116, 105, 111, 110>>],  \* 预先作用 / Preliminary action
           keywords |-> <<<<39044, 20808>>, <<25552, 21069>>, <<39044, 22788, 29702>>, <<20934, 22791>>, <<39044, 37197, 32622>>>>,  \* 预先 提前 预处理 准备 预配置
           examples |-> [zh |-> <<<<39044, 22788, 29702>>, <<39044, 37197, 32622>>, <<39044, 21152, 36733>>, <<25552, 21069, 20934, 22791>>>>,  \* 预处理 预配置 预加载 提前准备
                         en |-> <<<<80, 114, 101, 112, 114, 111, 99, 101, 115, 115, 105, 110, 103>>, <<80, 114, 101, 45, 99, 111, 110, 102, 105, 103, 117, 114, 97, 116, 105, 111, 110>>, <<80, 114, 101, 108, 111, 97, 100, 105, 110, 103>>, <<65, 100, 118, 97, 110, 99, 101, 32, 112, 114, 101, 112, 97, 114, 97, 116, 105, 111, 110>>>>]]  \* Preprocessing, Pre-configuration, Preloading, Advance preparation
 @@ 11 :> [name |-> [zh |-> <<20107, 20808, 32531, 35299>>, en |-> <<66, 101, 102, 111, 114, 101, 104, 97, 110, 100, 32, 99, 117, 115, 104, 105, 111, 110, 105, 110, 103>>],  \* 事先缓解 / Beforehand cushioning
           keywords |-> <<<<22791, 20221>>, <<24212, 24613>>, <<20887, 20313>>, <<25925, 38556, 36716, 31227>>, <<39044, 26696>>>>,  \* 备份 应急 冗余 故障转移 预案
           examples |-> [zh |-> <<<<22791, 20221, 31995, 32479>>, <<24212, 24613, 39044, 26696>>, <<25925, 38556, 36716, 31227>>, <<20887, 20313, 35774, 35745>>>>,  \* 备份系统 应急预案 故障转移 冗余设计
                         en |-> <<<<66, 97, 99, 107, 117, 112, 32, 115, 121, 115, 116, 101, 109, 115>>, <<69, 109, 101, 114, 103, 101, 110, 99, 121, 32, 112, 108, 97, 110, 115>>, <<70, 97, 105, 108, 111, 118, 101, 114>>, <<82, 101, 100, 117, 110, 100, 97, 110, 116, 32, 100, 101, 115, 105, 103, 110>>>>]]  \* Backup systems, Emergency plans, Failover, Redundant design
 @@ 12 :> [name |-> [zh |-> <<31561, 21183>>, en |-> <<69, 113, 117, 105, 112, 111, 116, 101, 110, 116, 105, 97, 108, 105, 116, 121>>],  \* 等势 / Equipotentiality
           keywords |-> <<<<27700, 24179>>, <<31561, 39640>>, <<24179, 34913>>, <<37325, 21147>>, <<20256, 36755>>>>,  \* 水平 等高 平衡 重力 传输
           examples |-> [zh |-> <<<<27700, 24179, 31227, 21160>>, <<31561, 39640, 35774, 35745>>, <<37325, 21147, 24179, 34913>>, <<27700, 24179, 20256, 36755>>>>,  \* 水平移动 等高设计 重力平衡 水平传输
                         en |-> <<<<72, 111, 114, 105, 122, 111, 110, 116, 97, 108, 32, 109, 111, 118, 101, 109, 101, 110, 116>>, <<76, 101, 118, 101, 108, 32, 100, 101, 115, 105, 103, 110>>, <<71, 114, 97, 118, 105, 116, 121, 32, 98, 97, 108, 97, 110, 99, 101>>, <<72, 111, 114, 105, 122, 111, 110, 116, 97, 108, 32, 116, 114, 97, 110, 115, 112, 111, 114, 116>>>>]]  \* Horizontal movement, Level design, Gravity balance, Horizontal transport
 @@ 13 :> [name |-> [zh |-> <<21453, 21521>>, en |-> <<73, 110, 118, 101, 114, 115, 105, 111, 110>>],  \* 反向 / Inversion
           keywords |-> <<<<21453, 21521>>, <<36870, 21521>>, <<39072, 20498>>, <<30456, 21453>>, <<20498, 32622>>>>,  \* 反向 逆向 颠倒 相反 倒置
           examples |-> [zh |-> <<<<21453, 21521, 24605, 32500>>, <<36870, 21521, 24037, 31243>>, <<39072, 20498, 39034, 24207>>, <<21453, 21521, 25805, 20316>>>>,  \* 反向思维 逆向工程 颠倒顺序 反向操作
                         en |-> <<<<82, 101, 118, 101, 114, 115, 101, 32, 116, 104, 105, 110, 107, 105, 110, 103>>, <<82, 101, 118, 101, 114, 115, 101, 32, 101, 110, 103, 105, 110, 101, 101, 114, 105, 110, 103>>, <<73, 110, 118, 101, 114, 116, 101, 100, 32, 111, 114, 100, 101, 114>>, <<82, 101, 118, 101, 114, 115, 101, 32, 111, 112, 101, 114, 97, 116, 105, 111, 110>>>>]]  \* Reverse thinking, Reverse engineering, Inverted order, Reverse operation
 @@ 14 :> [name |-> [zh |-> <<29699, 38754, 21270>>, en |-> <<83, 112, 104, 101, 114, 111, 105, 100, 97, 108, 105, 116, 121>>],  \* 球面化 / Spheroidality
           keywords |-> <<<<29699, 24418>>, <<22278, 28369>>, <<26354, 38754>>, <<22278, 35282>>, <<24367, 26354>>>>,  \* 球形 圆滑 曲面 圆角 弯曲
           examples |-> [zh |-> <<<<22278, 28369, 35774, 35745>>, <<29699, 24418, 32467, 26500>>, <<26354, 38754, 30028, 38754>>, <<22278, 35282, 22788, 29702>>>>,  \* 圆滑设计 球形结构 曲面界面 圆角处理
                         en |-> <<<<83, 109, 111, 111, 116, 104, 32, 100, 101, 115, 105, 103, 110>>, <<83, 112, 104, 101, 114, 105, 99, 97, 108, 32, 115, 116, 114, 117, 99, 116, 117, 114, 101>>, <<67, 117, 114, 118, 101, 100, 32, 105, 110, 116, 101, 114, 102, 97, 99, 101>>, <<82, 111, 117, 110, 100, 101, 100, 32, 99, 111, 114, 110, 101, 114, 115>>>>]]  \* Smooth design, Spherical structure, Curved interface, Rounded corners
 @@ 15 :> [name |-> [zh |-> <<21160, 24577, 24615>>, en |-> <<68, 121, 110, 97, 109, 105, 99, 115>>],  \* 动态性 / Dynamics
           keywords |-> <<<<21160, 24577>>, <<33258, 36866, 24212>>, <<35843, 25972>>, <<21464, 21270>>, <<21709, 24212>>>>,  \* 动态 自适应 调整 变化 响应
           examples |-> [zh |-> <<<<33258, 36866, 24212, 31995, 32479>>, <<21160, 24577, 35843, 25972>>, <<26234, 33021, 21709, 24212>>, <<24377, 24615, 20280, 32553>>>>,  \* 自适应系统 动态调整 智能响应 弹性伸缩
                         en |-> <<<<65, 100, 97, 112, 116, 105, 118, 101, 32, 115, 121, 115, 116, 101, 109, 115>>, <<68, 121, 110, 97, 109, 105, 99, 32, 97, 100, 106, 117, 115, 116, 109, 101, 110, 116>>, <<83, 109, 97, 114, 116, 32, 114, 101, 115, 112, 111, 110, 115, 101>>, <<69, 108, 97, 115, 116, 105, 99, 32, 115, 99, 97, 108, 105, 110, 103>>>>]]  \* Adaptive systems, Dynamic adjustment, Smart response, Elastic scaling
 @@ 16 :> [name |-> [zh |-> <<37096, 20998, 25110, 36807, 24230, 30340, 34892, 21160>>, en |-> <<80, 97, 114, 116, 105, 97, 108, 32, 111, 114, 32, 101, 120, 99, 101, 115, 115, 105, 118, 101, 32, 97, 99, 116, 105, 111, 110, 115>>],  \* 部分或过度的行动 / Partial or excessive actions
           keywords |-> <<<<37096, 20998>>, <<36807, 24230>>, <<28176, 36827>>, <<38454, 27573>>, <<20998, 27493>>>>,  \* 部分 过度 渐进 阶段 分步
           examples |-> [zh |-> <<<<36807, 24230, 35774, 35745>>, <<20998, 27493, 23454, 29616>>, <<28176, 36827, 20248, 21270>>, <<38454, 27573, 36798, 25104>>>>,  \* 过度设计 分步实现 渐进优化 阶段达成
                         en |-> <<<<79, 118, 101, 114, 45, 101, 110, 103, 105, 110, 101, 101, 114, 105, 110, 103>>, <<83, 116, 101, 112, 45, 98, 121, 45, 115, 116, 101, 112, 32, 105, 109, 112, 108, 101, 109, 101, 110, 116, 97, 116, 105, 111, 110>>, <<80, 114, 111, 103, 114, 101, 115, 115, 105, 118, 101, 32, 111, 112, 116, 105, 109, 105, 122, 97, 116, 105, 111, 110>>, <<80, 104, 97, 115, 101, 100, 32, 97, 99, 104, 105, 101, 118, 101, 109, 101, 110, 116>>>>]]  \* Over-engineering, Step-by-step implementation, Progressive optimization, Phased achievement
 @@ 17 :> [name |-> [zh |-> <<21478, 19968, 20010, 32500, 24230>>, en |-> <<65, 110, 111, 116, 104, 101, 114, 32, 100, 105, 109, 101, 110, 115, 105, 111, 110>>],  \* 另一个维度 / Another dimension
           keywords |-> <<<<32500, 24230>>, <<22402, 30452>>, <<31435, 20307>>, <<31354, 38388>>, <<26041, 21521>>>>,  \* 维度 垂直 立体 空间 方向
           examples |-> [zh |-> <<<<19977, 32500, 24605, 32500>>, <<22402, 30452, 24067, 23616>>, <<31435, 20307, 35774, 35745>>, <<22810, 32500, 31354, 38388>>>>,  \* 三维思维 垂直布局 立体设计 多维空间
                         en |-> <<<<51, 68, 32, 116, 104, 105, 110, 107, 105, 110, 103>>, <<86, 101, 114, 116, 105, 99, 97, 108, 32, 108, 97, 121, 111, 117, 116>>, <<83, 112, 97, 116, 105, 97, 108, 32, 100, 101, 115, 105, 103, 110>>, <<77, 117, 108, 116, 105, 45, 100, 105, 109, 101, 110, 115, 105, 111, 110, 97, 108, 32, 115, 112, 97, 99, 101>>>>]]  \* 3D thinking, Vertical layout, Spatial design, Multi-dimensional space
 @@ 18 :> [name |-> [zh |-> <<26426, 26800, 25391, 21160>>, en |-> <<77, 101, 99, 104, 97, 110, 105, 99, 97, 108, 32, 118, 105, 98, 114, 97, 116, 105, 111, 110>>],  \* 机械振动 / Mechanical vibration
           keywords |-> <<<<25391, 21160>>, <<39057, 29575>>, <<36229, 22768>>, <<20849, 25391>>, <<27874, 21160>>>>,  \* 振动 频率 超声 共振 波动
           examples |-> [zh |-> <<<<25391, 21160, 28165, 29702>>, <<36229, 22768, 27874>>, <<20849, 25391, 25216, 26415>>, <<25391, 21160, 20256, 36755>>>>,  \* 振动清理 超声波 共振技术 振动传输
                         en |-> <<<<86, 105, 98, 114, 97, 116, 105, 111, 110, 32, 99, 108, 101, 97, 110, 105, 110, 103>>, <<85, 108, 116, 114, 97, 115, 111, 110, 105, 99>>, <<82, 101, 115, 111, 110, 97, 110, 99, 101, 32, 116, 101, 99, 104, 110, 111, 108, 111, 103, 121>>, <<86, 105, 98, 114, 97, 116, 105, 111, 110, 32, 116, 114, 97, 110, 115, 109, 105, 115, 115, 105, 111, 110>>>>]]  \* Vibration cleaning, Ultrasonic, Resonance technology, Vibration transmission
 @@ 19 :> [name |-> [zh |-> <<21608, 26399, 24615, 34892, 21160>>, en |-> <<80, 101, 114, 105, 111, 100, 105, 99, 32, 97, 99, 116, 105, 111, 110>>],  \* 周期性行动 / Periodic action
           keywords |-> <<<<21608, 26399>>, <<33033, 20914>>, <<38388, 27463>>, <<23450, 26399>>, <<24490, 29615>>>>,  \* 周期 脉冲 间歇 定期 循环
           examples |-> [zh |-> <<<<23450, 26399, 32500, 25252>>, <<33033, 20914, 20449, 21495>>, <<21608, 26399, 26816, 26597>>, <<38388, 27463, 25805, 20316>>>>,  \* 定期维护 脉冲信号 周期检查 间歇操作
                         en |-> <<<<82, 101, 103, 117, 108, 97, 114, 32, 109, 97, 105, 110, 116, 101, 110, 97, 110, 99, 101>>, <<80, 117, 108, 115, 101, 32, 115, 105, 103, 110, 97, 108, 115>>, <<80, 101, 114, 105, 111, 100, 105, 99, 32, 99, 104, 101, 99, 107, 115>>, <<73, 110, 116, 101, 114, 109, 105, 116, 116, 101, 110, 116, 32, 111, 112, 101, 114, 97, 116, 105, 111, 110>>>>]]  \* Regular maintenance, Pulse signals, Periodic checks, Intermittent operation
 @@ 20 :> [name |-> [zh |-> <<26377, 29992, 34892, 21160, 30340, 36830, 32493, 24615>>, en |-> <<67, 111, 110, 116, 105, 110, 117, 105, 116, 121, 32, 111, 102, 32, 117, 115, 101, 102, 117, 108, 32, 97, 99, 116, 105, 111, 110>>],  \* 有用行动的连续性 / Continuity of useful action
           keywords |-> <<<<36830, 32493>>, <<25345, 32493>>, <<20840, 36127, 33655>>, <<19981, 38388, 26029>>, <<28385, 36733>>>>,  \* 连续 持续 全负荷 不间断 满载
           examples |-> [zh |-> <<<<25345, 32493, 36816, 34892>>, <<20840, 36127, 33655, 24037, 20316>>, <<36830, 32493, 29983, 20135>>, <<19981, 38388, 26029, 26381, 21153>>>>,  \* 持续运行 全负荷工作 连续生产 不间断服务
                         en |-> <<<<67, 111, 110, 116, 105, 110, 117, 111, 117, 115, 32, 111, 112, 101, 114, 97, 116, 105, 111, 110>>, <<70, 117, 108, 108, 32, 108, 111, 97, 100, 32, 119, 111, 114, 107>>, <<67, 111, 110, 116, 105, 110, 117, 111, 117, 115, 32, 112, 114, 111, 100, 117, 99, 116, 105, 111, 110>>, <<85, 110, 105, 110, 116, 101, 114, 114, 117, 112, 116, 101, 100, 32, 115, 101, 114, 118, 105, 99, 101>>>>]]  \* Continuous operation, Full load work, Continuous production, Uninterrupted service
 @@ 21 :> [name |-> [zh |-> <<24613, 36895>>, en |-> <<83, 107, 105, 112, 112, 105, 110, 103>>],  \* 急速 / Skipping
           keywords |-> <<<<24555, 36895>>, <<39640, 36895>>, <<24613, 36895>>, <<30636, 38388>>, <<36805, 36895>>>>,  \* 快速 高速 急速 瞬间 迅速
           examples |-> [zh |-> <<<<24555, 36895, 22788, 29702>>, <<39640, 36895, 36890, 36807>>, <<24613, 36895, 23436, 25104>>, <<30636, 38388, 25805, 20316>>>>,  \* 快速处理 高速通过 急速完成 瞬间操作
                         en |-> <<<<82, 97, 112, 105, 100, 32, 112, 114, 111, 99, 101, 115, 115, 105, 110, 103>>, <<72, 105, 103, 104, 45, 115, 112, 101, 101, 100, 32, 116, 114, 97, 110, 115, 105, 116>>, <<81, 117, 105, 99, 107, 32, 99, 111, 109, 112, 108, 101, 116, 105, 111, 110>>, <<73, 110, 115, 116, 97, 110, 116, 32, 111, 112, 101, 114, 97, 116, 105, 111, 110>>>>]]  \* Rapid processing, High-speed transit, Quick completion, Instant operation
 @@ 22 :> [name |-> [zh |-> <<21464, 23475, 20026, 21033>>, en |-> <<66, 108, 101, 115, 115, 105, 110, 103, 32, 105, 110, 32, 100, 105, 115, 103, 117, 105, 115, 101>>],  \* 变害为利 / Blessing in disguise
           keywords |-> <<<<36716, 21270>>, <<21033, 29992>>, <<24223, 29289>>, <<21270, 23475>>, <<21464, 24223>>>>,  \* 转化 利用 废物 化害 变废
           examples |-> [zh |-> <<<<24223, 29289, 21033, 29992>>, <<36127, 36127, 24471, 27491>>, <<36716, 21361, 20026, 26426>>, <<21270, 23475, 20026, 30410>>>>,  \* 废物利用 负负得正 转危为机 化害为益
                         en |-> <<<<87, 97, 115, 116, 101, 32, 117, 116, 105, 108, 105, 122, 97, 116, 105, 111, 110>>, <<84, 119, 111, 32, 110, 101, 103, 97, 116, 105, 118, 101, 115, 32, 109, 97, 107, 101, 32, 112, 111, 115, 105, 116, 105, 118, 101>>, <<84, 117, 114, 110, 32, 99, 114, 105, 115, 105, 115, 32, 105, 110, 116, 111, 32, 111, 112, 112, 111, 114, 116, 117, 110, 105, 116, 121>>, <<84, 114, 97, 110, 115, 102, 111, 114, 109, 32, 104, 97, 114, 109, 32, 105, 110, 116, 111, 32, 98, 101, 110, 101, 102, 105, 116>>>>]]  \* Waste utilization, Two negatives make positive, Turn crisis into opportunity, Transform harm into benefit
 @@ 23 :> [name |-> [zh |-> <<21453, 39304>>, en |-> <<70, 101, 101, 100, 98, 97, 99, 107>>],  \* 反馈 / Feedback
           keywords |-> <<<<21453, 39304>>, <<38381, 29615>>, <<30417, 25511>>, <<35843, 33410>>, <<22238, 36335>>>>,  \* 反馈 闭环 监控 调节 回路
           examples |-> [zh |-> <<<<21453, 39304, 25511, 21046>>, <<38381, 29615, 31995, 32479>>, <<33258, 25105, 35843, 33410>>, <<30417, 25511, 21453, 39304>>>>,  \* 反馈控制 闭环系统 自我调节 监控反馈
                         en |-> <<<<70, 101, 101, 100, 98, 97, 99, 107, 32, 99, 111, 110, 116, 114, 111, 108>>, <<67, 108, 111, 115, 101, 100, 45, 108, 111, 111, 112, 32, 115, 121, 115, 116, 101, 109>>, <<83, 101, 108, 102, 45, 114, 101, 103, 117, 108, 97, 116, 105, 111, 110>>, <<77, 111, 110, 105, 116, 111, 114, 105, 110, 103, 32, 102, 101, 101, 100, 98, 97, 99, 107>>>>]]  \* Feedback control, Closed-loop system, Self-regulation, Monitoring feedback
 @@ 24 :> [name |-> [zh |-> <<20013, 20171>>, en |-> <<73, 110, 116, 101, 114, 109, 101, 100, 105, 97, 114, 121>>],  \* 中介 / Intermediary
           keywords |-> <<<<20013, 20171>>, <<20195, 29702>>, <<32531, 20914>>, <<20013, 38388>>, <<36716, 25509>>>>,  \* 中介 代理 缓冲 中间 转接
           examples |-> [zh |-> <<<<20013, 38388, 23618>>, <<20195, 29702, 27169, 24335>>, <<32531, 20914, 21306>>, <<36716, 25509, 22120>>>>,  \* 中间层 代理模式 缓冲区 转接器
                         en |-> <<<<73, 110, 116, 101, 114, 109, 101, 100, 105, 97, 116, 101, 32, 108, 97, 121, 101, 114>>, <<80, 114, 111, 120, 121, 32, 112, 97, 116, 116, 101, 114, 110>>, <<66, 117, 102, 102, 101, 114>>, <<65, 100, 97, 112, 116, 101, 114>>>>]]  \* Intermediate layer, Proxy pattern, Buffer, Adapter
 @@ 25 :> [name |-> [zh |-> <<33258, 26381, 21153>>, en |-> <<83, 101, 108, 102, 45, 115, 101, 114, 118, 105, 99, 101>>],  \* 自服务 / Self-service
           keywords |-> <<<<33258, 21160>>, <<33258, 20027>>, <<33258, 26381, 21153>>, <<33258, 20462, 22797>>, <<33258, 36866, 24212>>>>,  \* 自动 自主 自服务 自修复 自适应
           examples |-> [zh |-> <<<<33258, 21160, 21270>>, <<33258, 20462, 22797>>, <<33258, 36866, 24212>>, <<33258, 20027, 31649, 29702>>>>,  \* 自动化 自修复 自适应 自主管理
                         en |-> <<<<65, 117, 116, 111, 109, 97, 116, 105, 111, 110>>, <<83, 101, 108, 102, 45, 114, 101, 112, 97, 105, 114>>, <<83, 101, 108, 102, 45, 97, 100, 97, 112, 116, 97, 116, 105, 111, 110>>, <<83, 101, 108, 102, 45, 109, 97, 110, 97, 103, 101, 109, 101, 110, 116>>>>]]  \* Automation, Self-repair, Self-adaptation, Self-management
 @@ 26 :> [name |-> [zh |-> <<22797, 21046>>, en |-> <<67, 111, 112, 121, 105, 110, 103>>],  \* 复制 / Copying
           keywords |-> <<<<22797, 21046>>, <<27169, 25311>>, <<20223, 30495>>, <<34394, 25311>>, <<23402, 29983>>>>,  \* 复制 模拟 仿真 虚拟 孪生
           examples |-> [zh |-> <<<<27169, 25311, 22120>>, <<34394, 25311, 29616, 23454>>, <<25968, 23383, 23402, 29983>>, <<20223, 30495, 27169, 22411>>>>,  \* 模拟器 虚拟现实 数字孪生 仿真模型
                         en |-> <<<<83, 105, 109, 117, 108, 97, 116, 111, 114>>, <<86, 105, 114, 116, 117, 97, 108, 32, 114, 101, 97, 108, 105, 116, 121>>, <<68, 105, 103, 105, 116, 97, 108, 32, 116, 119, 105, 110>>, <<83, 105, 109, 117, 108, 97, 116, 105, 111, 110, 32, 109, 111, 100, 101, 108>>>>]]  \* Simulator, Virtual reality, Digital twin, Simulation model
 @@ 27 :> [name |-> [zh |-> <<24265, 20215, 26367, 20195>>, en |-> <<67, 104, 101, 97, 112, 32, 115, 104, 111, 114, 116, 45, 108, 105, 118, 105, 110, 103, 32, 111, 98, 106, 101, 99, 116, 115>>],  \* 廉价替代 / Cheap short-living objects
           keywords |-> <<<<24265, 20215>>, <<26367, 20195>>, <<32463, 27982>>, <<20302, 25104, 26412>>, <<31616, 21270>>>>,  \* 廉价 替代 经济 低成本 简化
           examples |-> [zh |-> <<<<24320, 28304, 26367, 20195>>, <<20302, 25104, 26412, 26041, 26696>>, <<31616, 21270, 29256, 26412>>, <<32463, 27982, 22411, 35774, 35745>>>>,  \* 开源替代 低成本方案 简化版本 经济型设计
                         en |-> <<<<79, 112, 101, 110, 32, 115, 111, 117, 114, 99, 101, 32, 97, 108, 116, 101, 114, 110, 97, 116, 105, 118, 101, 115>>, <<76, 111, 119, 45, 99, 111, 115, 116, 32, 115, 111, 108, 117, 116, 105, 111, 110, 115>>, <<83, 105, 109, 112, 108, 105, 102, 105, 101, 100, 32, 118, 101, 114, 115, 105, 111, 110, 115>>, <<69, 99, 111, 110, 111, 109, 121, 32, 100, 101, 115, 105, 103, 110>>>>]]  \* Open source alternatives, Low-cost solutions, Simplified versions, Economy design
 @@ 28 :> [name |-> [zh |-> <<26426, 26800, 31995, 32479, 26367, 20195>>, en |-> <<77, 101, 99, 104, 97, 110, 105, 99, 115, 32, 115, 117, 98, 115, 116, 105, 116, 117, 116, 105, 111, 110>>],  \* 机械系统替代 / Mechanics substitution
           keywords |-> <<<<20256, 24863, 22120>>, <<20809, 23398>>, <<22768, 23398>>, <<24863, 30693>>, <<26816, 27979>>>>,  \* 传感器 光学 声学 感知 检测
           examples |-> [zh |-> <<<<20256, 24863, 22120, 26816, 27979>>, <<20809, 23398, 35782, 21035>>, <<22768, 38899, 30417, 25511>>, <<26234, 33021, 24863, 30693>>>>,  \* 传感器检测 光学识别 声音监控 智能感知
                         en |-> <<<<83, 101, 110, 115, 111, 114, 32, 100, 101, 116, 101, 99, 116, 105, 111, 110>>, <<79, 112, 116, 105, 99, 97, 108, 32, 114, 101, 99, 111, 103, 110, 105, 116, 105, 111, 110>>, <<83, 111, 117, 110, 100, 32, 109, 111, 110, 105, 116, 111, 114, 105, 110, 103>>, <<83, 109, 97, 114, 116, 32, 115, 101, 110, 115, 105, 110, 103>>>>]]  \* Sensor detection, Optical recognition, Sound monitoring, Smart sensing
 @@ 29 :> [name |-> [zh |-> <<27668, 21160, 21644, 28082, 21387, 32467, 26500>>, en |-> <<80, 110, 101, 117, 109, 97, 116, 105, 99, 115, 32, 97, 110, 100, 32, 104, 121, 100, 114, 97, 117, 108, 105, 99, 115>>],  \* 气动和液压结构 / Pneumatics and hydraulics
           keywords |-> <<<<27668, 21160>>, <<28082, 21387>>, <<27969, 20307>>, <<36719, 20307>>, <<26580, 24615>>>>,  \* 气动 液压 流体 软体 柔性
           examples |-> [zh |-> <<<<27668, 21160, 25511, 21046>>, <<28082, 21387, 31995, 32479>>, <<27969, 20307, 39537, 21160>>, <<36719, 20307, 26426, 22120, 20154>>>>,  \* 气动控制 液压系统 流体驱动 软体机器人
                         en |-> <<<<80, 110, 101, 117, 109, 97, 116, 105, 99, 32, 99, 111, 110, 116, 114, 111, 108>>, <<72, 121, 100, 114, 97, 117, 108, 105, 99, 32, 115, 121, 115, 116, 101, 109, 115>>, <<70, 108, 117, 105, 100, 32, 100, 114, 105, 118, 101>>, <<83, 111, 102, 116, 32, 114, 111, 98, 111, 116, 105, 99, 115>>>>]]  \* Pneumatic control, Hydraulic systems, Fluid drive, Soft robotics
 @@ 30 :> [name |-> [zh |-> <<26580, 24615, 22771, 20307, 21644, 34180, 33180>>, en |-> <<70, 108, 101, 120, 105, 98, 108, 101, 32, 115, 104, 101, 108, 108, 115, 32, 97, 110, 100, 32, 116, 104, 105, 110, 32, 102, 105, 108, 109, 115>>],  \* 柔性壳体和薄膜 / Flexible shells and thin films
           keywords |-> <<<<26580, 24615>>, <<34180, 33180>>, <<36719, 21253, 35013>>, <<24377, 24615>>, <<33180, 32467, 26500>>>>,  \* 柔性 薄膜 软包装 弹性 膜结构
           examples |-> [zh |-> <<<<34180, 33180, 26448, 26009>>, <<26580, 24615, 23631, 24149>>, <<36719, 21253, 35013>>, <<24377, 24615, 22806, 22771>>>>,  \* 薄膜材料 柔性屏幕 软包装 弹性外壳
                         en |-> <<<<70, 105, 108, 109, 32, 109, 97, 116, 101, 114, 105, 97, 108, 115>>, <<70, 108, 101, 120, 105, 98, 108, 101, 32, 115, 99, 114, 101, 101, 110, 115>>, <<83, 111, 102, 116, 32, 112, 97, 99, 107, 97, 103, 105, 110, 103>>, <<69, 108, 97, 115, 116, 105, 99, 32, 115, 104, 101, 108, 108, 115>>>>]]  \* Film materials, Flexible screens, Soft packaging, Elastic shells
 @@ 31 :> [name |-> [zh |-> <<22810, 23380, 26448, 26009>>, en |-> <<80, 111, 114, 111, 117, 115, 32, 109, 97, 116, 101, 114, 105, 97, 108, 115>>],  \* 多孔材料 / Porous materials
           keywords |-> <<<<22810, 23380>>, <<34562, 31389>>, <<27873, 27819>>, <<36807, 28388>>, <<36879, 27668>>>>,  \* 多孔 蜂窝 泡沫 过滤 透气
           examples |-> [zh |-> <<<<22810, 23380, 32467, 26500>>, <<34562, 31389, 26448, 26009>>, <<27873, 27819, 26448, 26009>>, <<36807, 28388, 26448, 26009>>>>,  \* 多孔结构 蜂窝材料 泡沫材料 过滤材料
                         en |-> <<<<80, 111, 114, 111, 117, 115, 32, 115, 116, 114, 117, 99, 116, 117, 114, 101>>, <<72, 111, 110, 101, 121, 99, 111, 109, 98, 32, 109, 97, 116, 101, 114, 105, 97, 108, 115>>, <<70, 111, 97, 109, 32, 109, 97, 116, 101, 114, 105, 97, 108, 115>>, <<70, 105, 108, 116, 101, 114, 32, 109, 97, 116, 101, 114, 105, 97, 108, 115>>>>]]  \* Porous structure, Honeycomb materials, Foam materials, Filter materials
 @@ 32 :> [name |-> [zh |-> <<39068, 33394, 25913, 21464>>, en |-> <<67, 111, 108, 111, 114, 32, 99, 104, 97, 110, 103, 101, 115>>],  \* 颜色改变 / Color changes
           keywords |-> <<<<39068, 33394>>, <<36879, 26126>>, <<21487, 35270>>, <<32534, 30721>>, <<25351, 31034>>>>,  \* 颜色 透明 可视 编码 指示
           examples |-> [zh |-> <<<<39068, 33394, 32534, 30721>>, <<29366, 24577, 25351, 31034>>, <<21487, 35270, 21270, 21453, 39304>>, <<36879, 26126, 24230, 35843, 33410>>>>,  \* 颜色编码 状态指示 可视化反馈 透明度调节
                         en |-> <<<<67, 111, 108, 111, 114, 32, 99, 111, 100, 105, 110, 103>>, <<83, 116, 97, 116, 117, 115, 32, 105, 110, 100, 105, 99, 97, 116, 105, 111, 110>>, <<86, 105, 115, 117, 97, 108, 32, 102, 101, 101, 100, 98, 97, 99, 107>>, <<84, 114, 97, 110, 115, 112, 97, 114, 101, 110, 99, 121, 32, 97, 100, 106, 117, 115, 116, 109, 101, 110, 116>>>>]]  \* Color coding, Status indication, Visual feedback, Transparency adjustment
 @@ 33 :> [name |-> [zh |-> <<21516, 36136, 24615>>, en |-> <<72, 111, 109, 111, 103, 101, 110, 101, 105, 116, 121>>],  \* 同质性 / Homogeneity
           keywords |-> <<<<21516, 36136>>, <<32479, 19968>>, <<20860, 23481>>, <<19968, 33268>>, <<30456, 21516>>>>,  \* 同质 统一 兼容 一致 相同
           examples |-> [zh |-> <<<<26448, 26009, 32479, 19968>>, <<20860, 23481, 24615, 35774, 35745>>, <<21516, 36136, 21270>>, <<19968, 33268, 24615>>>>,  \* 材料统一 兼容性设计 同质化 一致性
                         en |-> <<<<77, 97, 116, 101, 114, 105, 97, 108, 32, 117, 110, 105, 102, 105, 99, 97, 116, 105, 111, 110>>, <<67, 111, 109, 112, 97, 116, 105, 98, 105, 108, 105, 116, 121, 32, 100, 101, 115, 105, 103, 110>>, <<72, 111, 109, 111, 103, 101, 110, 105, 122, 97, 116, 105, 111, 110>>, <<67, 111, 110, 115, 105, 115, 116, 101, 110, 99, 121>>>>]]  \* Material unification, Compatibility design, Homogenization, Consistency
 @@ 34 :> [name |-> [zh |-> <<20002, 24323, 21644, 20877, 29983>>, en |-> <<68, 105, 115, 99, 97, 114, 100, 105, 110, 103, 32, 97, 110, 100, 32, 114, 101, 99, 111, 118, 101, 114, 105, 110, 103>>],  \* 丢弃和再生 / Discarding and recovering
           keywords |-> <<<<19968, 27425, 24615>>, <<38477, 35299>>, <<20020, 26102>>, <<28040, 32791>>, <<28040, 22833>>>>,  \* 一次性 降解 临时 消耗 消失
           examples |-> [zh |-> <<<<19968, 27425, 24615, 32452, 20214>>, <<21487, 38477, 35299, 26448, 26009>>, <<20020, 26102, 32467, 26500>>, <<28040, 32791, 24615, 37096, 20214>>>>,  \* 一次性组件 可降解材料 临时结构 消耗性部件
                         en |-> <<<<68, 105, 115, 112, 111, 115, 97, 98, 108, 101, 32, 99, 111, 109, 112, 111, 110, 101, 110, 116, 115>>, <<68, 101, 103, 114, 97, 100, 97, 98, 108, 101, 32, 109, 97, 116, 101, 114, 105, 97, 108, 115>>, <<84, 101, 109, 112, 111, 114, 97, 114, 121, 32, 115, 116, 114, 117, 99, 116, 117, 114, 101, 115>>, <<67, 111, 110, 115, 117, 109, 97, 98, 108, 101, 32, 112, 97, 114, 116, 115>>>>]]  \* Disposable components, Degradable materials, Temporary structures, Consumable parts
 @@ 35 :> [name |-> [zh |-> <<21442, 25968, 25913, 21464>>, en |-> <<80, 97, 114, 97, 109, 101, 116, 101, 114, 32, 99, 104, 97, 110, 103, 101, 115>>],  \* 参数改变 / Parameter changes
           keywords |-> <<<<29366, 24577>>, <<21442, 25968>>, <<36716, 25442>>, <<35843, 25972>>, <<20462, 25913>>>>,  \* 状态 参数 转换 调整 修改
           examples |-> [zh |-> <<<<29366, 24577, 36716, 25442>>, <<21442, 25968, 35843, 25972>>, <<30456, 21464, 21033, 29992>>, <<23646, 24615, 20462, 25913>>>>,  \* 状态转换 参数调整 相变利用 属性修改
                         en |-> <<<<83, 116, 97, 116, 101, 32, 116, 114, 97, 110, 115, 105, 116, 105, 111, 110>>, <<80, 97, 114, 97, 109, 101, 116, 101, 114, 32, 97, 100, 106, 117, 115, 116, 109, 101, 110, 116>>, <<80, 104, 97, 115, 101, 32, 99, 104, 97, 110, 103, 101, 32, 117, 116, 105, 108, 105, 122, 97, 116, 105, 111, 110>>, <<80, 114, 111, 112, 101, 114, 116, 121, 32, 109, 111, 100, 105, 102, 105, 99, 97, 116, 105, 111, 110>>>>]]  \* State transition, Parameter adjustment, Phase change utilization, Property modification
 @@ 36 :> [name |-> [zh |-> <<30456, 21464>>, en |-> <<80, 104, 97, 115, 101, 32, 116, 114, 97, 110, 115, 105, 116, 105, 111, 110, 115>>],  \* 相变 / Phase transitions
           keywords |-> <<<<30456, 21464>>, <<20307, 31215>>, <<28909, 37327>>, <<33976, 21457>>, <<20957, 22266>>>>,  \* 相变 体积 热量 蒸发 凝固
           examples |-> [zh |-> <<<<30456, 21464, 26448, 26009>>, <<28909, 31649, 25216, 26415>>, <<33976, 21457, 20919, 21364>>, <<20957, 22266, 25104, 22411>>>>,  \* 相变材料 热管技术 蒸发冷却 凝固成型
                         en |-> <<<<80, 104, 97, 115, 101, 32, 99, 104, 97, 110, 103, 101, 32, 109, 97, 116, 101, 114, 105, 97, 108, 115>>, <<72, 101, 97, 116, 32, 112, 105, 112, 101, 32, 116, 101, 99, 104, 110, 111, 108, 111, 103, 121>>, <<69, 118, 97, 112, 111, 114, 97, 116, 105, 118, 101, 32, 99, 111, 111, 108, 105, 110, 103>>, <<83, 111, 108, 105, 100, 105, 102, 105, 99, 97, 116, 105, 111, 110, 32, 102, 111, 114, 109, 105, 110, 103>>>>]]  \* Phase change materials, Heat pipe technology, Evaporative cooling, Solidification forming
 @@ 37 :> [name |-> [zh |-> <<28909, 33192, 32960>>, en |-> <<84, 104, 101, 114, 109, 97, 108, 32, 101, 120, 112, 97, 110, 115, 105, 111, 110>>],  \* 热膨胀 / Thermal expansion
           keywords |-> <<<<28909, 33192, 32960>>, <<25910, 32553>>, <<28909, 25935>>, <<21452, 37329, 23646>>, <<28201, 25511>>>>,  \* 热膨胀 收缩 热敏 双金属 温控
           examples |-> [zh |-> <<<<28909, 25935, 20803, 20214>>, <<21452, 37329, 23646, 29255>>, <<28909, 34917, 20607>>, <<28201, 25511, 24320, 20851>>>>,  \* 热敏元件 双金属片 热补偿 温控开关
                         en |-> <<<<84, 104, 101, 114, 109, 97, 108, 32, 101, 108, 101, 109, 101, 110, 116, 115>>, <<66, 105, 109, 101, 116, 97, 108, 108, 105, 99, 32, 115, 116, 114, 105, 112, 115>>, <<84, 104, 101, 114, 109, 97, 108, 32, 99, 111, 109, 112, 101, 110, 115, 97, 116, 105, 111, 110>>, <<84, 101, 109, 112, 101, 114, 97, 116, 117, 114, 101, 32, 115, 119, 105, 116, 99, 104, 101, 115>>>>]]  \* Thermal elements, Bimetallic strips, Thermal compensation, Temperature switches
 @@ 38 :> [name |-> [zh |-> <<24378, 27687, 21270, 21058>>, en |-> <<83, 116, 114, 111, 110, 103, 32, 111, 120, 105, 100, 97, 110, 116, 115>>],  \* 强氧化剂 / Strong oxidants
           keywords |-> <<<<27687, 21270>>, <<23500, 27687>>, <<31561, 31163, 23376>>, <<30005, 31163>>, <<36752, 23556>>>>,  \* 氧化 富氧 等离子 电离 辐射
           examples |-> [zh |-> <<<<27687, 21270, 22788, 29702>>, <<23500, 27687, 29123, 28903>>, <<31561, 31163, 23376, 20307>>, <<30005, 31163, 36752, 23556>>>>,  \* 氧化处理 富氧燃烧 等离子体 电离辐射
                         en |-> <<<<79, 120, 105, 100, 97, 116, 105, 111, 110, 32, 116, 114, 101, 97, 116, 109, 101, 110, 116>>, <<79, 120, 121, 103, 101, 110, 45, 101, 110, 114, 105, 99, 104, 101, 100, 32, 99, 111, 109, 98, 117, 115, 116, 105, 111, 110>>, <<80, 108, 97, 115, 109, 97>>, <<73, 111, 110, 105, 122, 105, 110, 103, 32, 114, 97, 100, 105, 97, 116, 105, 111, 110>>>>]]  \* Oxidation treatment, Oxygen-enriched combustion, Plasma, Ionizing radiation
 @@ 39 :> [name |-> [zh |-> <<24816, 24615, 27668, 27675>>, en |-> <<73, 110, 101, 114, 116, 32, 97, 116, 109, 111, 115, 112, 104, 101, 114, 101>>],  \* 惰性气氛 / Inert atmosphere
           keywords |-> <<<<24816, 24615>>, <<30495, 31354>>, <<20805, 27694>>, <<26080, 27687>>, <<20445, 25252>>>>,  \* 惰性 真空 充氮 无氧 保护
           examples |-> [zh |-> <<<<24816, 24615, 20445, 25252>>, <<30495, 31354, 29615, 22659>>, <<20805, 27694, 20445, 25252>>, <<26080, 27687, 22788, 29702>>>>,  \* 惰性保护 真空环境 充氮保护 无氧处理
                         en |-> <<<<73, 110, 101, 114, 116, 32, 112, 114, 111, 116, 101, 99, 116, 105, 111, 110>>, <<86, 97, 99, 117, 117, 109, 32, 101, 110, 118, 105, 114, 111, 110, 109, 101, 110, 116>>, <<78, 105, 116, 114, 111, 103, 101, 110, 32, 112, 114, 111, 116, 101, 99, 116, 105, 111, 110>>, <<79, 120, 121, 103, 101, 110, 45, 102, 114, 101, 101, 32, 112, 114, 111, 99, 101, 115, 115, 105, 110, 103>>>>]]  \* Inert protection, Vacuum environment, Nitrogen protection, Oxygen-free processing
 @@ 40 :> [name |-> [zh |-> <<22797, 21512, 26448, 26009>>, en |-> <<67, 111, 109, 112, 111, 115, 105, 116, 101, 32, 109, 97, 116, 101, 114, 105, 97, 108, 115>>],  \* 复合材料 / Composite materials
           keywords |-> <<<<22797, 21512>>, <<22810, 23618>>, <<28151, 21512>>, <<32452, 21512>>, <<22797, 26434>>>>,  \* 复合 多层 混合 组合 复杂
           examples |-> [zh |-> <<<<22797, 21512, 26448, 26009>>, <<22810, 23618, 32467, 26500>>, <<28151, 21512, 31995, 32479>>, <<32452, 21512, 26041, 26696>>>>,  \* 复合材料 多层结构 混合系统 组合方案
                         en |-> <<<<67, 111, 109, 112, 111, 115, 105, 116, 101, 32, 109, 97, 116, 101, 114, 105, 97, 108, 115>>, <<77, 117, 108, 116, 105, 45, 108, 97, 121, 101, 114, 32, 115, 116, 114, 117, 99, 116, 117, 114, 101>>, <<72, 121, 98, 114, 105, 100, 32, 115, 121, 115, 116, 101, 109, 115>>, <<67, 111, 109, 98, 105, 110, 101, 100, 32, 115, 111, 108, 117, 116, 105, 111, 110, 115>>>>]]  \* Composite materials, Multi-layer structure, Hybrid systems, Combined solutions

(* triz_core.py _load_matrix *)
WebMatrix == <<
    [key |-> <<<<37325, 37327>>, <<24378, 24230>>>>, ids |-> <<1, 8, 15, 40>>],  \* (重量, 强度)
    [key |-> <<<<37325, 37327>>, <<36895, 24230>>>>, ids |-> <<2, 14, 15, 35>>],  \* (重量, 速度)
    [key |-> <<<<24378, 24230>>, <<37325, 37327>>>>, ids |-> <<1, 8, 36, 40>>],  \* (强度, 重量)
    [key |-> <<<<22797, 26434, 24615>>, <<21487, 38752, 24615>>>>, ids |-> <<1, 26, 27, 40>>],  \* (复杂性, 可靠性)
    [key |-> <<<<31934, 24230>>, <<36895, 24230>>>>, ids |-> <<10, 18, 32, 39>>],  \* (精度, 速度)
    [key |-> <<<<25104, 26412>>, <<36136, 37327>>>>, ids |-> <<13, 26, 27, 35>>],  \* (成本, 质量)
    [key |-> <<<<33021, 32791>>, <<25928, 29575>>>>, ids |-> <<2, 6, 19, 36>>],  \* (能耗, 效率)
    [key |-> <<<<20307, 31215>>, <<21151, 33021>>>>, ids |-> <<7, 17, 29, 40>>],  \* (体积, 功能)
    [key |-> <<<<36895, 24230>>, <<31934, 24230>>>>, ids |-> <<10, 18, 32, 39>>],  \* (速度, 精度)
    [key |-> <<<<23433, 20840>>, <<20415, 21033>>>>, ids |-> <<11, 24, 25, 35>>],  \* (安全, 便利)
    [key |-> <<<<33258, 21160, 21270>>, <<25104, 26412>>>>, ids |-> <<25, 26, 27, 35>>],  \* (自动化, 成本)
    [key |-> <<<<26234, 33021, 21270>>, <<21487, 38752, 24615>>>>, ids |-> <<15, 23, 25, 35>>],  \* (智能化, 可靠性)
    [key |-> <<<<32500, 25252>>, <<22797, 26434, 24615>>>>, ids |-> <<1, 2, 25, 35>>],  \* (维护, 复杂性)
    [key |-> <<<<21487, 38752, 24615>>, <<22797, 26434, 24615>>>>, ids |-> <<1, 11, 25, 27>>],  \* (可靠性, 复杂性)
    [key |-> <<<<24615, 33021>>, <<25104, 26412>>>>, ids |-> <<1, 2, 27, 35>>],  \* (性能, 成本)
    [key |-> <<<<25928, 29575>>, <<23433, 20840>>>>, ids |-> <<11, 23, 25, 35>>]  \* (效率, 安全)
    >>

(* triz_core.py _load_parameter_keywords, in dictionary order *)
WebParameterKeywords == <<
    [param |-> <<37325, 37327>>, keywords |-> <<<<37325>>, <<36731>>, <<36136, 37327>>, <<37325, 37327>>, <<36733, 37325>>>>],  \* 重量: 重 轻 质量 重量 载重
    [param |-> <<24378, 24230>>, keywords |-> <<<<24378, 24230>>, <<30828, 24230>>, <<21018, 24615>>, <<22362, 22266>>, <<32784, 29992>>>>],  \* 强度: 强度 硬度 刚性 坚固 耐用
    [param |-> <<36895, 24230>>, keywords |-> <<<<24555>>, <<24930>>, <<36895, 24230>>, <<25928, 29575>>, <<21709, 24212>>>>],  \* 速度: 快 慢 速度 效率 响应
    [param |-> <<31934, 24230>>, keywords |-> <<<<31934, 30830>>, <<20934, 30830>>, <<31934, 24230>>, <<35823, 24046>>, <<20559, 24046>>>>],  \* 精度: 精确 准确 精度 误差 偏差
    [param |-> <<25104, 26412>>, keywords |-> <<<<20215, 26684>>, <<36153, 29992>>, <<25104, 26412>>, <<20415, 23452>>, <<26114, 36149>>>>],  \* 成本: 价格 费用 成本 便宜 昂贵
    [param |-> <<36136, 37327>>, keywords |-> <<<<36136, 37327>>, <<21697, 36136>>, <<20248, 36136>>, <<21487, 38752>>, <<31283, 23450>>>>],  \* 质量: 质量 品质 优质 可靠 稳定
    [param |-> <<22797, 26434, 24615>>, keywords |-> <<<<22797, 26434>>, <<31616, 21333>>, <<22797, 26434, 24230>>, <<38590, 24230>>, <<32321, 29712>>>>],  \* 复杂性: 复杂 简单 复杂度 难度 繁琐
    [param |-> <<20307, 31215>>, keywords |-> <<<<22823, 23567>>, <<20307, 31215>>, <<23610, 23544>>, <<21344, 22320>>, <<31354, 38388>>>>],  \* 体积: 大小 体积 尺寸 占地 空间
    [param |-> <<23433, 20840>>, keywords |-> <<<<23433, 20840>>, <<21361, 38505>>, <<39118, 38505>>, <<20445, 25252>>, <<38450, 25252>>>>],  \* 安全: 安全 危险 风险 保护 防护
    [param |-> <<25928, 29575>>, keywords |-> <<<<25928, 29575>>, <<24615, 33021>>, <<29983, 20135, 29575>>, <<21534, 21520, 37327>>, <<20135, 33021>>>>],  \* 效率: 效率 性能 生产率 吞吐量 产能
    [param |-> <<21487, 38752, 24615>>, keywords |-> <<<<21487, 38752>>, <<31283, 23450>>, <<25925, 38556>>, <<22833, 25928>>, <<25345, 20037>>>>],  \* 可靠性: 可靠 稳定 故障 失效 持久
    [param |-> <<32500, 25252>>, keywords |-> <<<<32500, 25252>>, <<20445, 20859>>, <<20462, 29702>>, <<32500, 20462>>, <<26816, 20462>>>>],  \* 维护: 维护 保养 修理 维修 检修
    [param |-> <<33258, 21160, 21270>>, keywords |-> <<<<33258, 21160>>, <<25163, 21160>>, <<26426, 26800>>, <<26234, 33021>>, <<25511, 21046>>>>],  \* 自动化: 自动 手动 机械 智能 控制
    [param |-> <<21151, 33021, 24615>>, keywords |-> <<<<21151, 33021>>, <<29305, 24615>>, <<33021, 21147>>, <<29992, 36884>>, <<20316, 29992>>>>]  \* 功能性: 功能 特性 能力 用途 作用
    >>

(* triz_core.py _load_problem_categories, in dictionary order *)
WebProblemCategories == <<
    [category |-> <<84, 101, 99, 104, 110, 105, 99, 97, 108, 32, 80, 114, 111, 98, 108, 101, 109>>, keywords |-> <<<<25216, 26415>>, <<31995, 32479>>, <<35774, 22791>>, <<26426, 22120>>, <<31639, 27861>>, <<36719, 20214>>>>],  \* Technical Problem: 技术 系统 设备 机器 算法 软件
    [category |-> <<68, 101, 115, 105, 103, 110, 32, 80, 114, 111, 98, 108, 101, 109>>, keywords |-> <<<<35774, 35745>>, <<22806, 35266>>, <<32467, 26500>>, <<24067, 23616>>, <<30028, 38754>>, <<36896, 22411>>>>],  \* Design Problem: 设计 外观 结构 布局 界面 造型
    [category |-> <<67, 111, 115, 116, 32, 80, 114, 111, 98, 108, 101, 109>>, keywords |-> <<<<25104, 26412>>, <<20215, 26684>>, <<36153, 29992>>, <<39044, 31639>>, <<32463, 27982>>, <<25237, 36164>>>>],  \* Cost Problem: 成本 价格 费用 预算 经济 投资
    [category |-> <<85, 115, 101, 114, 32, 80, 114, 111, 98, 108, 101, 109>>, keywords |-> <<<<29992, 25143>>, <<23458, 25143>>, <<20307, 39564>>, <<38656, 27714>>, <<28385, 24847>>, <<20351, 29992>>>>],  \* User Problem: 用户 客户 体验 需求 满意 使用
    [category |-> <<81, 117, 97, 108, 105, 116, 121, 32, 80, 114, 111, 98, 108, 101, 109>>, keywords |-> <<<<36136, 37327>>, <<32570, 38519>>, <<25925, 38556>>, <<38169, 35823>>, <<38382, 39064>>, <<19981, 33391>>>>]  \* Quality Problem: 质量 缺陷 故障 错误 问题 不良
    >>

(* triz_core.py _get_smart_recommendations: recommendations *)
WebRecommendations == <<
    [category |-> <<84, 101, 99, 104, 110, 105, 99, 97, 108, 32, 80, 114, 111, 98, 108, 101, 109>>, ids |-> <<1, 2, 15, 35, 40>>],  \* Technical Problem
    [category |-> <<68, 101, 115, 105, 103, 110, 32, 80, 114, 111, 98, 108, 101, 109>>, ids |-> <<1, 3, 15, 27, 35>>],  \* Design Problem
    [category |-> <<67, 111, 115, 116, 32, 80, 114, 111, 98, 108, 101, 109>>, ids |-> <<27, 35, 1, 2, 40>>],  \* Cost Problem
    [category |-> <<85, 115, 101, 114, 32, 80, 114, 111, 98, 108, 101, 109>>, ids |-> <<6, 15, 25, 27, 35>>],  \* User Problem
    [category |-> <<81, 117, 97, 108, 105, 116, 121, 32, 80, 114, 111, 98, 108, 101, 109>>, ids |-> <<1, 2, 15, 35, 40>>]  \* Quality Problem
    >>

GeneralProblem == <<71, 101, 110, 101, 114, 97, 108, 32, 80, 114, 111, 98, 108, 101, 109>>  \* "General Problem"
CliDefaultWorsening == <<194, 167, 231, 202, 249, 199, 202, 196, 223>>  \* "Â§çÊùÇÊÄß"
WebDefaultWorsening == <<22797, 26434, 24615>>  \* "复杂性"
CliSoftware == <<203, 937, 216, 8240, 170, 8706>>  \* "ËΩØ‰ª∂"
CliSystem == <<193, 8805, 170, 193, 170, 252>>  \* "Á≥ªÁªü"
CliSegmentation == <<194, 224, 220, 194, 226, 8804>>  \* "ÂàÜÂâ≤"
CliDynamics == <<194, 228, 174, 202, 196, 197, 202, 196, 223>>  \* "Âä®ÊÄÅÊÄß"
WebSoftwareZh == <<36719, 20214>>  \* "软件"
WebSystemZh == <<31995, 32479>>  \* "系统"
WebSoftwareEn == <<115, 111, 102, 116, 119, 97, 114, 101>>  \* "software"
WebSystemEn == <<115, 121, 115, 116, 101, 109>>  \* "system"
WebSegmentationZh == <<20998, 21106>>  \* "分割"
WebSegmentationEn == <<83, 101, 103, 109, 101, 110, 116, 97, 116, 105, 111, 110>>  \* "Segmentation"
WebDynamicsZh == <<21160, 24577, 24615>>  \* "动态性"
WebDynamicsEn == <<68, 121, 110, 97, 109, 105, 99, 115>>  \* "Dynamics"

(***************************************************************************)
(* Words that problem texts are made of, and parameter names.              *)
(***************************************************************************)
Vocabulary == <<
    <<37325>>,  \* "重": a weight keyword (web)
    <<24378, 24230>>,  \* "强度": a strength keyword (web)
    <<25104, 26412>>,  \* "成本": a cost keyword and a Cost Problem keyword (web)
    <<22797, 26434>>,  \* "复杂": a complexity keyword and a keyword of principle 40 (web)
    <<27169, 22359, 32452, 20214, 20998, 31163, 29420, 31435, 25286, 20998>>,  \* "模块组件分离独立拆分": the five keywords of principle 1 (web)
    <<77, 111, 100, 117, 108, 97, 114, 32, 83, 121, 115, 116, 101, 109>>,  \* "Modular System": words of English examples; a description trigger (web)
    <<120, 121, 122>>,  \* "xyz": matches nothing
    <<200, 225, 231, 194, 186, 8747, 194, 8747, 182>>,  \* "ÈáçÂº∫Â∫¶": the first weight and strength keywords as written in the CLI table
    <<202, 174, 176, 194, 249, 243, 194, 229, 241, 203, 198, 230, 203, 198, 176>>  \* "Ê®°ÂùóÂåñËÆæËÆ°": the first example of principle 1 in the CLI table
    >>
WebWeight == <<37325, 37327>>  \* "重量"
WebStrength == <<24378, 24230>>  \* "强度"
WebComplex == <<22797, 26434>>  \* "复杂"
WebTechnical == <<25216, 26415>>  \* "技术": the first Technical Problem keyword of the web table
CliCost == <<202, 224, 234, 202, 250, 168>>  \* "ÊàêÊú¨": the first keyword of the third category (cost) as written in the CLI table

(***************************************************************************)
(* Replies of the LLM collaborator: the API call raising, or the text of   *)
(* the message content.                                                    *)
(***************************************************************************)
Reply ==
    [Raises |-> [raises |-> TRUE, text |-> <<>>],
     (* text without braces: I cannot help. *)
     Prose |->
        [raises |-> FALSE,
         text |-> <<73, 32, 99, 97, 110, 110, 111, 116, 32, 104, 101, 108, 112, 46>>],
     (* an opening brace and no closing brace: {"success": true *)
     Unclosed |->
        [raises |-> FALSE,
         text |-> <<123, 34, 115, 117, 99, 99, 101, 115, 115, 34, 58, 32, 116, 114, 117, 101>>],
     (* the last closing brace comes before the first opening brace: } { *)
     ClosedFirst |->
        [raises |-> FALSE,
         text |-> <<125, 32, 123>>],
     (* braces around text that is not JSON: {improving: weight} *)
     NotJson |->
        [raises |-> FALSE,
         text |-> <<123, 105, 109, 112, 114, 111, 118, 105, 110, 103, 58, 32, 119, 101, 105, 103, 104, 116, 125>>],
     (* a JSON object followed by more text up to the last brace: {"success": true} or } *)
     ExtraData |->
        [raises |-> FALSE,
         text |-> <<123, 34, 115, 117, 99, 99, 101, 115, 115, 34, 58, 32, 116, 114, 117, 101, 125, 32, 111, 114, 32, 125>>],
     (* a string with a raw newline, which json.loads rejects: {"enhanced_description": "a\nb"} *)
     RawNewline |->
        [raises |-> FALSE,
         text |-> <<123, 34, 101, 110, 104, 97, 110, 99, 101, 100, 95, 100, 101, 115, 99, 114, 105, 112, 116, 105, 111, 110, 34, 58, 32, 34, 97, 10, 98, 34, 125>>],
     (* a complete analysis inside a markdown fence: ```json\n{"improving_param": "重量", "worsening_param": "强度", "enhanced_description": "成本", "success": true}\n``` *)
     Fenced |->
        [raises |-> FALSE,
         text |-> <<96, 96, 96, 106, 115, 111, 110, 10, 123, 34, 105, 109, 112, 114, 111, 118, 105, 110, 103, 95, 112, 97, 114, 97, 109, 34, 58, 32, 34, 37325, 37327, 34, 44, 32, 34, 119, 111, 114, 115, 101, 110, 105, 110, 103, 95, 112, 97, 114, 97, 109, 34, 58, 32, 34, 24378, 24230, 34, 44, 32, 34, 101, 110, 104, 97, 110, 99, 101, 100, 95, 100, 101, 115, 99, 114, 105, 112, 116, 105, 111, 110, 34, 58, 32, 34, 25104, 26412, 34, 44, 32, 34, 115, 117, 99, 99, 101, 115, 115, 34, 58, 32, 116, 114, 117, 101, 125, 10, 96, 96, 96>>],
     (* an analysis whose enhanced_description is the empty string: {"improving_param": "重量", "enhanced_description": ""} *)
     EmptyDescription |->
        [raises |-> FALSE,
         text |-> <<123, 34, 105, 109, 112, 114, 111, 118, 105, 110, 103, 95, 112, 97, 114, 97, 109, 34, 58, 32, 34, 37325, 37327, 34, 44, 32, 34, 101, 110, 104, 97, 110, 99, 101, 100, 95, 100, 101, 115, 99, 114, 105, 112, 116, 105, 111, 110, 34, 58, 32, 34, 34, 125>>],
     (* a JSON object that says success false: {"success": false} *)
     SuccessFalse |->
        [raises |-> FALSE,
         text |-> <<123, 34, 115, 117, 99, 99, 101, 115, 115, 34, 58, 32, 102, 97, 108, 115, 101, 125>>],
     (* an enhancement without a success entry: {"enhanced_description": "D", "detailed_explanation": "X"} *)
     NoSuccess |->
        [raises |-> FALSE,
         text |-> <<123, 34, 101, 110, 104, 97, 110, 99, 101, 100, 95, 100, 101, 115, 99, 114, 105, 112, 116, 105, 111, 110, 34, 58, 32, 34, 68, 34, 44, 32, 34, 100, 101, 116, 97, 105, 108, 101, 100, 95, 101, 120, 112, 108, 97, 110, 97, 116, 105, 111, 110, 34, 58, 32, 34, 88, 34, 125>>],
     (* a complete enhancement: {"enhanced_description": "D", "detailed_explanation": "X", "success": true} *)
     Enhanced |->
        [raises |-> FALSE,
         text |-> <<123, 34, 101, 110, 104, 97, 110, 99, 101, 100, 95, 100, 101, 115, 99, 114, 105, 112, 116, 105, 111, 110, 34, 58, 32, 34, 68, 34, 44, 32, 34, 100, 101, 116, 97, 105, 108, 101, 100, 95, 101, 120, 112, 108, 97, 110, 97, 116, 105, 111, 110, 34, 58, 32, 34, 88, 34, 44, 32, 34, 115, 117, 99, 99, 101, 115, 115, 34, 58, 32, 116, 114, 117, 101, 125>>],
     (* success 1 and a description only, with escaped quotes:  {"success": 1, "enhanced_description": "D \"q\""}  *)
     DescriptionOnly |->
        [raises |-> FALSE,
         text |-> <<32, 123, 34, 115, 117, 99, 99, 101, 115, 115, 34, 58, 32, 49, 44, 32, 34, 101, 110, 104, 97, 110, 99, 101, 100, 95, 100, 101, 115, 99, 114, 105, 112, 116, 105, 111, 110, 34, 58, 32, 34, 68, 32, 92, 34, 113, 92, 34, 34, 125, 32>>],
     (* a successful reply that names other fields of the solution: {"success": true, "principle": "P", "confidence": 1, "tags": ["t"], "examples": null} *)
     OtherFields |->
        [raises |-> FALSE,
         text |-> <<123, 34, 115, 117, 99, 99, 101, 115, 115, 34, 58, 32, 116, 114, 117, 101, 44, 32, 34, 112, 114, 105, 110, 99, 105, 112, 108, 101, 34, 58, 32, 34, 80, 34, 44, 32, 34, 99, 111, 110, 102, 105, 100, 101, 110, 99, 101, 34, 58, 32, 49, 44, 32, 34, 116, 97, 103, 115, 34, 58, 32, 91, 34, 116, 34, 93, 44, 32, 34, 101, 120, 97, 109, 112, 108, 101, 115, 34, 58, 32, 110, 117, 108, 108, 125>>]]

(* the keys the code reads from the LLM's JSON object *)
Key ==
    [success |-> <<115, 117, 99, 99, 101, 115, 115>>,
     improving_param |-> <<105, 109, 112, 114, 111, 118, 105, 110, 103, 95, 112, 97, 114, 97, 109>>,
     worsening_param |-> <<119, 111, 114, 115, 101, 110, 105, 110, 103, 95, 112, 97, 114, 97, 109>>,
     enhanced_description |-> <<101, 110, 104, 97, 110, 99, 101, 100, 95, 100, 101, 115, 99, 114, 105, 112, 116, 105, 111, 110>>,
     detailed_explanation |-> <<100, 101, 116, 97, 105, 108, 101, 100, 95, 101, 120, 112, 108, 97, 110, 97, 116, 105, 111, 110>>]

(* a default list that is empty *)
GlobalDefaultEmpty == <<>>

(* recommendations.get(problem_category, [1, 2, 15, 27, 35]): the default *)
GlobalDefault == <<1, 2, 15, 27, 35>>

principles(eng) == IF eng = "cli" THEN CliPrinciples ELSE WebPrinciples
contradiction_matrix(eng) == IF eng = "cli" THEN CliMatrix ELSE WebMatrix
parameter_keywords(eng) ==
    IF eng = "cli" THEN CliParameterKeywords ELSE WebParameterKeywords
problem_categories(eng) ==
    IF eng = "cli" THEN CliProblemCategories ELSE WebProblemCategories
recommendations(eng) ==
    IF eng = "cli" THEN CliRecommendations ELSE WebRecommendations
DefaultWorsening(eng) ==
    IF eng = "cli" THEN CliDefaultWorsening ELSE WebDefaultWorsening

(* get_principle_text: the web tables hold {zh, en} records, looked up by   *)
(* the current language; the CLI tables hold plain values                   *)
get_principle_text(eng, lang, principle_data, field) ==
    IF eng = "cli" THEN principle_data[field] ELSE principle_data[field][lang]

(* the language a CLI table cell is written in is not selectable *)
LangOf(eng, lang) == IF eng = "cli" THEN "plain" ELSE lang

(* the fields description, detailed, category and examples of a solution   *)
(* are never inspected by the engine, only copied: a value stands for the table cell it was read from  *)
TextOf(eng, lang, pid, field) ==
    [field |-> field, pid |-> pid, lang |-> LangOf(eng, lang)]

(***************************************************************************)
(* Matching.                                                               *)
(***************************************************************************)
(* any(keyword in text_lower for keyword in keywords) *)
AnyKeywordIn(keywords, text_lower) ==
    \E i \in 1..Len(keywords) : Contains(keywords[i], text_lower)

(* sum(1 for kw in keywords if kw in problem_lower) *)
KeywordMatches(keywords, problem_lower) ==
    Cardinality({i \in 1..Len(keywords) : Contains(keywords[i], problem_lower)})

smart_parameter_detection(eng, text) ==
    LET text_lower == LowerStr(text)
        hit == SelectSeq(parameter_keywords(eng),
                         LAMBDA e : AnyKeywordIn(e.keywords, text_lower))
    IN  [i \in 1..Len(hit) |-> hit[i].param]

categorize_problem(eng, problem) ==
    LET problem_lower == LowerStr(problem)
        hit == SelectSeq(problem_categories(eng),
                         LAMBDA e : AnyKeywordIn(e.keywords, problem_lower))
    IN  IF hit # <<>> THEN hit[1].category ELSE GeneralProblem

(* dict.get(key): the list of the entry, or <<>> for Python's None (None    *)
(* and the empty list are both false in `or` and `not`)                     *)
MatrixGet(eng, key) ==
    LET hit == SelectSeq(contradiction_matrix(eng), LAMBDA e : e.key = key)
    IN  IF hit # <<>> THEN hit[1].ids ELSE <<>>

get_smart_recommendations(eng, problem) ==
    LET problem_category == categorize_problem(eng, problem)
        hit == SelectSeq(recommendations(eng),
                         LAMBDA e : e.category = problem_category)
    IN  IF hit # <<>> THEN hit[1].ids ELSE GlobalDefault

(* a resolution that lets the detected parameters replace the caller's *)
ResolveParamsDetectedFirst(eng, problem, improving, worsening) ==
    LET detected_params == smart_parameter_detection(eng, problem)
    IN  IF Len(detected_params) >= 2
        THEN <<detected_params[1], detected_params[2]>>
        ELSE <<improving, worsening>>

(* analyze_problem, smart parameter detection: the resolved pair *)
ResolveParams(eng, problem, improving, worsening) ==
    IF improving = <<>> \/ worsening = <<>>
    THEN LET detected_params == smart_parameter_detection(eng, problem)
         IN  IF Len(detected_params) >= 2
             THEN <<IF improving # <<>> THEN improving ELSE detected_params[1],
                    IF worsening # <<>> THEN worsening ELSE detected_params[2]>>
             ELSE IF Len(detected_params) = 1
             THEN <<IF improving # <<>> THEN improving ELSE detected_params[1],
                    IF worsening # <<>> THEN worsening ELSE DefaultWorsening(eng)>>
             ELSE <<improving, worsening>>
    ELSE <<improving, worsening>>

(* a lookup that consults the reversed pair before the direct one *)
principle_ids_reverse_first(eng, problem, improving, worsening) ==
    LET key == <<LowerStr(improving), LowerStr(worsening)>>
        reverse_key == <<LowerStr(worsening), LowerStr(improving)>>
        reversed == MatrixGet(eng, reverse_key)
        found == IF reversed # <<>> THEN reversed ELSE MatrixGet(eng, key)
    IN  IF found = <<>>
        THEN get_smart_recommendations(eng, problem)
        ELSE found

(* a lookup that leaves out the first candidate once a session is recorded *)
principle_ids_novel(eng, problem, improving, worsening) ==
    LET key == <<LowerStr(improving), LowerStr(worsening)>>
        reverse_key == <<LowerStr(worsening), LowerStr(improving)>>
        direct == MatrixGet(eng, key)
        found == IF direct # <<>> THEN direct ELSE MatrixGet(eng, reverse_key)
        ids == IF found = <<>>
               THEN get_smart_recommendations(eng, problem)
               ELSE found
    IN  IF history = <<>> THEN ids ELSE Tail(ids)

(* analyze_problem, matrix lookup: the candidate principle ids for a        *)
(* resolved pair                                                            *)
principle_ids(eng, problem, improving, worsening) ==
    LET key == <<LowerStr(improving), LowerStr(worsening)>>
        reverse_key == <<LowerStr(worsening), LowerStr(improving)>>
        direct == MatrixGet(eng, key)
        found == IF direct # <<>> THEN direct ELSE MatrixGet(eng, reverse_key)
    IN  IF found = <<>>
        THEN get_smart_recommendations(eng, problem)
        ELSE found

(***************************************************************************)
(* Scoring.                                                                *)
(***************************************************************************)
Languages(eng) == IF eng = "cli" THEN {"plain"} ELSE {"zh", "en"}

(* str(principle_data["keywords"]).lower(), by engine and principle id *)
KeywordsStr ==
    [eng \in {"cli", "web"} |->
        [pid \in DOMAIN principles(eng) |->
            LowerStr(StrOfList(principles(eng)[pid].keywords))]]

(* [ex.lower().split() for ex in examples], by engine, language and id *)
ExampleWords ==
    [eng \in {"cli", "web"} |->
        [lang \in Languages(eng) |->
            [pid \in DOMAIN principles(eng) |->
                LET examples == get_principle_text(eng, lang,
                                                   principles(eng)[pid], "examples")
                IN  [i \in 1..Len(examples) |-> Split(LowerStr(examples[i]))]]]]

(* a confidence without the cap of 0.95 *)
calculate_confidence_uncapped(eng, problem, pid, improving, worsening) ==
    LET principle_data == principles(eng)[pid]
        base_confidence == F06
        problem_lower == LowerStr(problem)
        keyword_matches == KeywordMatches(principle_data.keywords, problem_lower)
        keyword_bonus == FloatMin(F03, FloatMulInt(keyword_matches, F01))
        param_bonus == IF \/ Contains(LowerStr(improving), KeywordsStr[eng][pid])
                          \/ Contains(LowerStr(worsening), KeywordsStr[eng][pid])
                       THEN F01 ELSE F0
    IN  FloatAdd(FloatAdd(base_confidence, keyword_bonus), param_bonus)

calculate_confidence(eng, problem, pid, improving, worsening) ==
    LET principle_data == principles(eng)[pid]
        base_confidence == F06
        problem_lower == LowerStr(problem)
        keyword_matches == KeywordMatches(principle_data.keywords, problem_lower)
        keyword_bonus == FloatMin(F03, FloatMulInt(keyword_matches, F01))
        param_bonus == IF \/ Contains(LowerStr(improving), KeywordsStr[eng][pid])
                          \/ Contains(LowerStr(worsening), KeywordsStr[eng][pid])
                       THEN F01 ELSE F0
    IN  FloatMin(F095, FloatAdd(FloatAdd(base_confidence, keyword_bonus), param_bonus))

calculate_relevance(eng, lang, problem, pid) ==
    LET principle_data == principles(eng)[pid]
        problem_lower == LowerStr(problem)
        keyword_score == KeywordMatches(principle_data.keywords, problem_lower)
        examples == ExampleWords[eng][lang][pid]
        example_score ==
            Cardinality({i \in 1..Len(examples) :
                \E w \in 1..Len(examples[i]) :
                    Contains(examples[i][w], problem_lower)})
    IN  FloatMin(F1, FloatAdd(FloatMulInt(keyword_score, F02),
                              FloatMulInt(example_score, F01)))

(* _generate_description: the template chosen and the strings embedded in it *)
generate_description(eng, lang, problem, principle_data, pid, improving, worsening) ==
    LET principle_name == get_principle_text(eng, lang, principle_data, "name")
        trigger ==
            IF eng = "cli"
            THEN Contains(CliSoftware, problem) \/ Contains(CliSystem, problem)
            ELSE \/ Contains(WebSoftwareZh, problem)
                 \/ Contains(WebSystemZh, problem)
                 \/ Contains(WebSoftwareEn, LowerStr(problem))
                 \/ Contains(WebSystemEn, LowerStr(problem))
        segmentation ==
            IF eng = "cli"
            THEN principle_name = CliSegmentation
            ELSE \/ Contains(WebSegmentationZh, principle_name)
                 \/ Contains(WebSegmentationEn, principle_name)
        dynamics ==
            IF eng = "cli"
            THEN principle_name = CliDynamics
            ELSE \/ Contains(WebDynamicsZh, principle_name)
                 \/ Contains(WebDynamicsEn, principle_name)
        template == IF trigger /\ segmentation THEN "segmentation"
                    ELSE IF trigger /\ dynamics THEN "dynamics"
                    ELSE "generic"
    IN  [template |-> template,
         lang |-> LangOf(eng, lang),
         principle_name |-> IF template = "generic" THEN principle_name ELSE <<>>,
         base_desc |-> IF template = "generic" THEN pid ELSE 0,
         problem |-> problem,
         improving |-> improving,
         worsening |-> worsening]

(* a slice that keeps everything *)
TakeAll(xs, n) == xs

(* xs[:n], for n >= 0 *)
Take(xs, n) == SubSeq(xs, 1, IF n < Len(xs) THEN n ELSE Len(xs))

generate_solution(eng, lang, problem, pid, improving, worsening) ==
    LET principle_data == principles(eng)[pid]
    IN  [principle |-> get_principle_text(eng, lang, principle_data, "name"),
         principle_id |-> pid,
         description |-> generate_description(eng, lang, problem, principle_data,
                                              pid, improving, worsening),
         detailed_explanation |-> TextOf(eng, lang, pid, "detailed"),
         examples |-> TextOf(eng, lang, pid, "examples"),
         confidence |-> calculate_confidence(eng, problem, pid, improving, worsening),
         relevance_score |-> calculate_relevance(eng, LangOf(eng, lang), problem, pid),
         category |-> TextOf(eng, lang, pid, "category"),
         tags |-> Take(principle_data.keywords, 3)]

(* the sort key (confidence + relevance_score) / 2: halving a double is     *)
(* exact, so keys are ordered as the sums are                               *)
SortKey(sol) == FloatAdd(sol.confidence, sol.relevance_score)

(* sorted(solutions, key=..., reverse=True): stable, so an element goes     *)
(* after every element placed before it whose key is not smaller            *)
RECURSIVE InsertDesc(_, _)

(* an insertion that puts an element before the elements of equal key *)
InsertDescBeforeEqual(sorted, x) ==
    IF sorted = <<>> THEN <<x>>
    ELSE IF ~FloatLess(SortKey(x), SortKey(Head(sorted)))
         THEN <<x>> \o sorted
         ELSE <<Head(sorted)>> \o InsertDesc(Tail(sorted), x)

InsertDesc(sorted, x) ==
    IF sorted = <<>> THEN <<x>>
    ELSE IF FloatLess(SortKey(Head(sorted)), SortKey(x))
         THEN <<x>> \o sorted
         ELSE <<Head(sorted)>> \o InsertDesc(Tail(sorted), x)

RECURSIVE SortedDesc(_)

(* a sort that leaves the list as it is *)
Unsorted(xs) == xs

SortedDesc(xs) ==
    IF xs = <<>> THEN <<>>
    ELSE InsertDesc(SortedDesc(SubSeq(xs, 1, Len(xs) - 1)), xs[Len(xs)])

(* for pid in ids: if pid in self.principles: solutions.append(...) *)
GenerateSolutions(eng, lang, problem, ids, improving, worsening) ==
    LET present == SelectSeq(ids, LAMBDA pid : pid \in DOMAIN principles(eng))
    IN  [i \in 1..Len(present) |->
            generate_solution(eng, lang, problem, present[i], improving, worsening)]

(***************************************************************************)
(* Export.  json.dumps is modelled by the sequence of JSON tokens it       *)
(* writes (indentation is white space between tokens): integers become     *)
(* their decimal digits and strings their escaped text, so that reading an *)
(* export back is a computation of its own.                                *)
(***************************************************************************)
JStr(s) == [t |-> "str", v |-> s]
JInt(n) == [t |-> "int", v |-> n]
JFloat(x) == [t |-> "float", v |-> x]
(* a string the engine only copies: the table cell or template it is from *)
JText(ref) == [t |-> "text", v |-> ref]
JList(xs) == [t |-> "list", v |-> xs]
(* a dict: the sequence of its <<key, value>> items in insertion order *)
JObject(items) == [t |-> "object", v |-> items]

Punct(c) == [t |-> c, v |-> <<>>]

(* the decimal digits of a natural number, as characters *)
RECURSIVE Digits(_)
Digits(n) == IF n < 10 THEN <<48 + n>> ELSE Digits(n \div 10) \o <<48 + (n % 10)>>

RECURSIVE ParseInt(_)
ParseInt(ds) ==
    IF ds = <<>> THEN 0
    ELSE 10 * ParseInt(SubSeq(ds, 1, Len(ds) - 1)) + (ds[Len(ds)] - 48)

(* the quotation mark (34) and the backslash (92) are written after a      *)
(* backslash; with ensure_ascii=False every other printable character is   *)
(* written as it is                                                        *)
RECURSIVE Escape(_)
Escape(s) ==
    IF s = <<>> THEN <<>>
    ELSE (IF Head(s) \in {34, 92} THEN <<92, Head(s)>> ELSE <<Head(s)>>)
             \o Escape(Tail(s))

RECURSIVE Unescape(_)
Unescape(s) ==
    IF s = <<>> THEN <<>>
    ELSE IF Head(s) = 92 /\ Len(s) >= 2
         THEN <<s[2]>> \o Unescape(SubSeq(s, 3, Len(s)))
         ELSE <<Head(s)>> \o Unescape(Tail(s))

RECURSIVE dumps(_)
RECURSIVE dumps_items(_, _)
RECURSIVE dumps_elements(_, _)

(* json.dumps(value, ensure_ascii=False, indent=2) *)
dumps(value) ==
    CASE value.t = "object" ->
            <<Punct("{")>> \o dumps_items(value.v, 1) \o <<Punct("}")>>
      [] value.t = "list" ->
            <<Punct("[")>> \o dumps_elements(value.v, 1) \o <<Punct("]")>>
      [] value.t = "int" -> <<[t |-> "number", v |-> Digits(value.v)]>>
      [] value.t = "str" -> <<[t |-> "string", v |-> Escape(value.v)]>>
      [] OTHER -> <<value>>

dumps_items(items, i) ==
    IF i > Len(items) THEN <<>>
    ELSE (IF i > 1 THEN <<Punct(",")>> ELSE <<>>)
             \o <<[t |-> "key", v |-> items[i][1]], Punct(":")>>
             \o dumps(items[i][2]) \o dumps_items(items, i + 1)

dumps_elements(xs, i) ==
    IF i > Len(xs) THEN <<>>
    ELSE (IF i > 1 THEN <<Punct(",")>> ELSE <<>>)
             \o dumps(xs[i]) \o dumps_elements(xs, i + 1)

RECURSIVE loads_value(_, _)
RECURSIVE loads_items(_, _, _)
RECURSIVE loads_elements(_, _, _)

(* the value that starts at token i, and the index of the token after it *)
loads_value(toks, i) ==
    CASE toks[i].t = "{" ->
            IF toks[i + 1].t = "}"
            THEN [val |-> JObject(<<>>), next |-> i + 2]
            ELSE loads_items(toks, i + 1, <<>>)
      [] toks[i].t = "[" ->
            IF toks[i + 1].t = "]"
            THEN [val |-> JList(<<>>), next |-> i + 2]
            ELSE loads_elements(toks, i + 1, <<>>)
      [] toks[i].t = "number" ->
            [val |-> JInt(ParseInt(toks[i].v)), next |-> i + 1]
      [] toks[i].t = "string" ->
            [val |-> JStr(Unescape(toks[i].v)), next |-> i + 1]
      [] OTHER -> [val |-> toks[i], next |-> i + 1]

(* token i is a key, i + 1 the colon, the item's value starts at i + 2 *)
loads_items(toks, i, items) ==
    LET r == loads_value(toks, i + 2)
        read == Append(items, <<toks[i].v, r.val>>)
    IN  IF toks[r.next].t = ","
        THEN loads_items(toks, r.next + 1, read)
        ELSE [val |-> JObject(read), next |-> r.next + 1]

loads_elements(toks, i, xs) ==
    LET r == loads_value(toks, i)
        read == Append(xs, r.val)
    IN  IF toks[r.next].t = ","
        THEN loads_elements(toks, r.next + 1, read)
        ELSE [val |-> JList(read), next |-> r.next + 1]

(* json.loads *)
loads(toks) == loads_value(toks, 1).val

(* data[key] of a parsed JSON object *)
Item(data, key) ==
    LET hit == SelectSeq(data.v, LAMBDA item : item[1] = key)
    IN  hit[1][2]

(* Solution.to_dict: dataclasses.asdict *)
to_dict(sol) ==
    JObject(<< <<"principle", JStr(sol.principle)>>,
               <<"principle_id", JInt(sol.principle_id)>>,
               <<"description", JText(sol.description)>>,
               <<"detailed_explanation", JText(sol.detailed_explanation)>>,
               <<"examples", JText(sol.examples)>>,
               <<"confidence", JFloat(sol.confidence)>>,
               <<"relevance_score", JFloat(sol.relevance_score)>>,
               <<"category", JText(sol.category)>>,
               <<"tags", JList([i \in 1..Len(sol.tags) |-> JStr(sol.tags[i])])>> >>)

(* an export that counts one solution too many *)
export_data_miscounted(eng, lang, now, solutions) ==
    JObject(<< <<"timestamp", JText(now)>>,
               <<"solution_count", JInt(Len(solutions) + 1)>> >>
            \o (IF eng = "web" THEN << <<"language", JText(lang)>> >> ELSE <<>>)
            \o << <<"solutions",
                    JList([i \in 1..Len(solutions) |-> to_dict(solutions[i])])>> >>)

(* the export_data dict of _export_json; the web core adds "language" *)
export_data(eng, lang, now, solutions) ==
    JObject(<< <<"timestamp", JText(now)>>,
               <<"solution_count", JInt(Len(solutions))>> >>
            \o (IF eng = "web" THEN << <<"language", JText(lang)>> >> ELSE <<>>)
            \o << <<"solutions",
                    JList([i \in 1..Len(solutions) |-> to_dict(solutions[i])])>> >>)

export_json(eng, lang, now, solutions) ==
    dumps(export_data(eng, lang, now, solutions))

(* _export_txt: the lines of the report, each with the values printed in it *)
TxtLine(kind, value) == [kind |-> kind, value |-> value]

RECURSIVE TxtSolutions(_, _, _)
TxtSolutions(eng, solutions, i) ==
    IF i > Len(solutions) THEN <<>>
    ELSE << TxtLine("solution", <<i, solutions[i].principle>>),
            TxtLine("description", solutions[i].description),
            TxtLine("confidence", solutions[i].confidence) >>
         \o (IF eng = "cli"
             THEN <<TxtLine("relevance", solutions[i].relevance_score)>>
             ELSE <<>>)
         \o << TxtLine("examples", solutions[i].examples),
               TxtLine("rule", 30),
               TxtLine("blank", 0) >>
         \o TxtSolutions(eng, solutions, i + 1)

export_txt(eng, lang, now, solutions) ==
    << TxtLine("title", IF eng = "web" THEN lang ELSE "en"),
       TxtLine("rule", 50),
       TxtLine("time", now),
       TxtLine("count", Len(solutions)) >>
    \o (IF eng = "web" THEN <<TxtLine("language", lang)>> ELSE <<>>)
    \o <<TxtLine("blank", 0)>>
    \o TxtSolutions(eng, solutions, 1)

FormatJson == <<106, 115, 111, 110>>   \* "json"
FormatJSON == <<74, 83, 79, 78>>       \* "JSON"
FormatTxt == <<116, 120, 116>>         \* "txt"

FormatJsOn == <<74, 115, 79, 110>>     \* "JsOn"
FormatXml == <<120, 109, 108>>         \* "xml"
FormatJsonSpace == <<106, 115, 111, 110, 32>>   \* "json "

(* a dispatch that compares the format without lower-casing it *)
ExportFormatCaseSensitive(cfg, given, format_type) ==
    LET chosen == IF given THEN format_type ELSE cfg.export_format
    IN  IF chosen = FormatJson THEN "json" ELSE "txt"

(* export_solutions: which exporter runs; given = FALSE is format_type=None *)
ExportFormat(cfg, given, format_type) ==
    LET chosen == IF given THEN format_type ELSE cfg.export_format
    IN  IF LowerStr(chosen) = FormatJson THEN "json" ELSE "txt"

(***************************************************************************)
(* Stored files.  What the engine finds at a path of its data directory    *)
(* when it is constructed: no file, a file that cannot be opened, a file   *)
(* whose content json.load / pickle.load rejects, or a file holding a      *)
(* value.                                                                  *)
(***************************************************************************)
MissingFile == [state |-> "missing"]
UnreadableFile == [state |-> "unreadable"]
UnparsableFile == [state |-> "unparsable"]
StoredFile(content) == [state |-> "stored", content |-> content]

(* the file makes the load fall back: exists() is false, open() raises or  *)
(* the parser raises                                                       *)
LoadFails(file) == file.state \in {"missing", "unreadable", "unparsable"}

(* default_config of _load_config (the web core's has no language entry;   *)
(* "" stands for the missing key)                                          *)
DefaultConfig(eng) ==
    [max_solutions |-> 5, enable_history |-> TRUE, auto_save |-> TRUE,
     export_format |-> FormatJson, language |-> IF eng = "cli" THEN "en" ELSE ""]

(* __init__ of the web core in a serverless environment *)
ServerlessConfig(language) ==
    [max_solutions |-> 5, enable_history |-> FALSE, auto_save |-> FALSE,
     export_format |-> FormatJson, language |-> language]

(* {**default_config, **stored}: the stored entries replace the defaults *)
MergeConfig(default_config, stored) ==
    [k \in DOMAIN default_config \cup DOMAIN stored |->
        IF k \in DOMAIN stored THEN stored[k] ELSE default_config[k]]

(* _load_config *)
load_config(eng, serverless, file) ==
    IF serverless THEN DefaultConfig(eng)
    ELSE IF file.state = "stored"
         THEN MergeConfig(DefaultConfig(eng), file.content)
         ELSE DefaultConfig(eng)

(* _load_history *)
load_history(eng, serverless, file) ==
    IF serverless THEN <<>>
    ELSE IF file.state = "stored" THEN file.content ELSE <<>>

(* _load_favorites *)
load_favorites(eng, serverless, file) ==
    IF serverless THEN {}
    ELSE IF file.state = "stored" THEN file.content ELSE {}

(***************************************************************************)
(* Statistics.                                                             *)
(***************************************************************************)
RECURSIVE SumRatings(_)
(* sum(s.user_rating for s in rated_sessions) *)
SumRatings(sessions) ==
    IF sessions = <<>> THEN 0
    ELSE Head(sessions).user_rating + SumRatings(Tail(sessions))

(* get_statistics: the dict it returns; average_rating is the quotient     *)
(* <<sum of the ratings, number of rated sessions>>.  A session is rated   *)
(* when its user_rating is true in Python: neither None nor 0.             *)
get_statistics(hist, favs) ==
    IF hist = <<>> THEN [total_sessions |-> 0]
    ELSE LET rated_sessions == SelectSeq(hist, LAMBDA s : s.user_rating # 0)
         IN  [total_sessions |-> Len(hist),
              rated_sessions |-> Len(rated_sessions),
              average_rating |-> IF rated_sessions # <<>>
                                 THEN <<SumRatings(rated_sessions),
                                        Len(rated_sessions)>>
                                 ELSE <<0, 1>>,
              favorites_count |-> Cardinality(favs)]

(***************************************************************************)
(* json.loads on text.  The LLM's reply is a Python string; the parser     *)
(* reads objects, arrays, strings with the escapes json.dumps writes,      *)
(* integers and the literals true, false and null, and rejects everything  *)
(* else as json.JSONDecodeError does (numbers with a fraction or an        *)
(* exponent, \u escapes and NaN/Infinity do not occur in the replies).     *)
(***************************************************************************)
JBool(b) == [t |-> "bool", v |-> b]
JNull == [t |-> "null", v |-> <<>>]

(* json.loads(s): ok is FALSE where it raises json.JSONDecodeError, val is *)
(* the value read otherwise                                                *)
json_loads(s) ==
    LET ParseFail == [ok |-> FALSE, val |-> JNull, next |-> 0]
        Parsed(val, next) == [ok |-> TRUE, val |-> val, next |-> next]
        (* the first index at or after i that holds no JSON white space *)
        RECURSIVE SkipWs(_)
        SkipWs(i) ==
            IF i <= Len(s) /\ s[i] \in {32, 9, 10, 13} THEN SkipWs(i + 1) ELSE i
        (* the characters of lit are at s[i], s[i+1], ... *)
        StartsWith(i, lit) ==
            /\ i + Len(lit) - 1 <= Len(s)
            /\ SubSeq(s, i, i + Len(lit) - 1) = lit
        (* the index of the quotation mark that closes the string whose     *)
        (* content starts at i; 0 when the string is not closed, holds a    *)
        (* control character or an escape that JSON does not have           *)
        RECURSIVE StringEnd(_)
        StringEnd(i) ==
            IF i > Len(s) THEN 0
            ELSE IF s[i] = 34 THEN i
            ELSE IF s[i] < 32 THEN 0
            ELSE IF s[i] = 92
                 THEN IF i + 1 <= Len(s)
                         /\ s[i + 1] \in {34, 92, 47, 98, 102, 110, 114, 116}
                      THEN StringEnd(i + 2) ELSE 0
                 ELSE StringEnd(i + 1)
        (* the character an escape \c stands for *)
        Escaped(c) ==
            CASE c = 98 -> 8 [] c = 102 -> 12 [] c = 110 -> 10
              [] c = 114 -> 13 [] c = 116 -> 9 [] OTHER -> c
        (* the str that the characters between two quotation marks spell *)
        RECURSIVE UnescapeJson(_)
        UnescapeJson(x) ==
            IF x = <<>> THEN <<>>
            ELSE IF Head(x) = 92
                 THEN <<Escaped(x[2])>> \o UnescapeJson(SubSeq(x, 3, Len(x)))
                 ELSE <<Head(x)>> \o UnescapeJson(Tail(x))
        (* the index after the digits that start at i *)
        RECURSIVE DigitsEnd(_)
        DigitsEnd(i) ==
            IF i <= Len(s) /\ s[i] \in 48..57 THEN DigitsEnd(i + 1) ELSE i
        RECURSIVE ParseValue(_)
        RECURSIVE ParseMembers(_, _)
        RECURSIVE ParseElements(_, _)
        (* the JSON value that starts at or after i0, and the index after it *)
        ParseValue(i0) ==
            LET i == SkipWs(i0)
            IN  IF i > Len(s) THEN ParseFail
                ELSE CASE s[i] = 34 ->
                            LET e == StringEnd(i + 1)
                            IN  IF e = 0 THEN ParseFail
                                ELSE Parsed(JStr(UnescapeJson(SubSeq(s, i + 1, e - 1))),
                                            e + 1)
                       [] s[i] = 123 ->
                            LET j == SkipWs(i + 1)
                            IN  IF j <= Len(s) /\ s[j] = 125
                                THEN Parsed(JObject(<<>>), j + 1)
                                ELSE ParseMembers(j, <<>>)
                       [] s[i] = 91 ->
                            LET j == SkipWs(i + 1)
                            IN  IF j <= Len(s) /\ s[j] = 93
                                THEN Parsed(JList(<<>>), j + 1)
                                ELSE ParseElements(j, <<>>)
                       [] s[i] \in 48..57 ->
                            LET e == DigitsEnd(i)
                            IN  IF s[i] = 48 /\ e > i + 1 THEN ParseFail
                                ELSE Parsed(JInt(ParseInt(SubSeq(s, i, e - 1))), e)
                       [] StartsWith(i, <<116, 114, 117, 101>>) ->
                            Parsed(JBool(TRUE), i + 4)
                       [] StartsWith(i, <<102, 97, 108, 115, 101>>) ->
                            Parsed(JBool(FALSE), i + 5)
                       [] StartsWith(i, <<110, 117, 108, 108>>) ->
                            Parsed(JNull, i + 4)
                       [] OTHER -> ParseFail
        (* the members of an object from index j on: "key" : value , ... } *)
        ParseMembers(j, items) ==
            IF j > Len(s) \/ s[j] # 34 THEN ParseFail
            ELSE LET e == StringEnd(j + 1)
                     c == SkipWs(e + 1)
                 IN  IF e = 0 \/ c > Len(s) \/ s[c] # 58 THEN ParseFail
                     ELSE LET r == ParseValue(c + 1)
                              n == SkipWs(r.next)
                              read == Append(items,
                                             <<UnescapeJson(SubSeq(s, j + 1, e - 1)),
                                               r.val>>)
                          IN  IF ~r.ok \/ n > Len(s) THEN ParseFail
                              ELSE IF s[n] = 44
                                   THEN ParseMembers(SkipWs(n + 1), read)
                                   ELSE IF s[n] = 125
                                        THEN Parsed(JObject(read), n + 1)
                                        ELSE ParseFail
        (* the elements of an array from index j on: value , ... ] *)
        ParseElements(j, xs) ==
            LET r == ParseValue(j)
                n == SkipWs(r.next)
            IN  IF ~r.ok \/ n > Len(s) THEN ParseFail
                ELSE IF s[n] = 44 THEN ParseElements(n + 1, Append(xs, r.val))
                ELSE IF s[n] = 93 THEN Parsed(JList(Append(xs, r.val)), n + 1)
                ELSE ParseFail
        r == ParseValue(1)
    IN  IF r.ok /\ SkipWs(r.next) > Len(s)
        THEN [ok |-> TRUE, val |-> r.val]
        ELSE [ok |-> FALSE, val |-> JNull]

(* dict.get(key, default) on a parsed object: the last item of that key *)
Get(data, key, default) ==
    LET hit == SelectSeq(data.v, LAMBDA item : item[1] = key)
    IN  IF hit # <<>> THEN hit[Len(hit)][2] ELSE default

(* the truth value of a parsed JSON value in Python *)
Truthy(value) ==
    CASE value.t = "bool" -> value.v
      [] value.t = "null" -> FALSE
      [] value.t = "int" -> value.v # 0
      [] OTHER -> value.v # <<>>

(* data[key] = value: an existing item keeps its place *)
SetItem(data, key, value) ==
    IF \E i \in 1..Len(data.v) : data.v[i][1] = key
    THEN JObject([i \in 1..Len(data.v) |->
                     IF data.v[i][1] = key THEN <<key, value>> ELSE data.v[i]])
    ELSE JObject(Append(data.v, <<key, value>>))

(* the Python value of a parsed JSON value: a string is the str itself *)
PyValue(value) == IF value.t = "str" THEN value.v ELSE value

(* data.get(key, default) for a text field of a solution: [ai |-> value]   *)
(* is a field holding what the LLM wrote, where the core's solutions hold  *)
(* a text of the principle table                                           *)
GetText(data, key, default) ==
    IF \E i \in 1..Len(data.v) : data.v[i][1] = key
    THEN [ai |-> PyValue(Get(data, key, JNull))]
    ELSE default

(***************************************************************************)
(* The LLM collaborator of the web application.                            *)
(***************************************************************************)
(* the text between the first opening and the last closing brace, parsed:  *)
(* found is FALSE where the code raises "No JSON found"                    *)
ExtractJson(response_text) ==
    LET (* str.find(c) and str.rfind(c): a Python index, -1 when c does   *)
        (* not occur                                                       *)
        Occurs(c) == {i \in 1..Len(response_text) : response_text[i] = c}
        Find(c) ==
            IF Occurs(c) = {} THEN -1
            ELSE (CHOOSE i \in Occurs(c) : \A j \in Occurs(c) : i <= j) - 1
        RFind(c) ==
            IF Occurs(c) = {} THEN -1
            ELSE (CHOOSE i \in Occurs(c) : \A j \in Occurs(c) : i >= j) - 1
        (* response_text[a:b] for Python indices a, b >= 0 *)
        Slice(a, b) ==
            SubSeq(response_text, a + 1,
                   IF b < Len(response_text) THEN b ELSE Len(response_text))
        json_start == Find(123)
        json_end == RFind(125) + 1
    IN  IF json_start # -1 /\ json_end # -1
        THEN [found |-> TRUE, parsed |-> json_loads(Slice(json_start, json_end))]
        ELSE [found |-> FALSE, parsed |-> [ok |-> FALSE, val |-> JNull]]

AiFailure == JObject(<< <<Key.success, JBool(FALSE)>> >>)

(* an analysis that reports success where the reply holds no JSON object *)
analyze_problem_with_ai_optimistic(problem, reply) ==
    LET x == ExtractJson(reply.text)
    IN  IF ~reply.raises /\ x.found /\ x.parsed.ok
        THEN SetItem(x.parsed.val, Key.success, JBool(TRUE))
        ELSE JObject(<< <<Key.success, JBool(TRUE)>> >>)

(* analyze_problem_with_ai(problem), the LLM answering with reply *)
analyze_problem_with_ai(problem, reply) ==
    IF reply.raises THEN AiFailure
    ELSE LET x == ExtractJson(reply.text)
         IN  IF x.found /\ x.parsed.ok
             THEN SetItem(x.parsed.val, Key.success, JBool(TRUE))
             ELSE AiFailure

(* an enhancement that takes the description from every reply that parses *)
enhance_solution_with_ai_eager(solution, original_problem, reply) ==
    IF reply.raises THEN solution
    ELSE LET x == ExtractJson(reply.text)
         IN  IF x.found /\ x.parsed.ok
             THEN [solution EXCEPT
                      !.description =
                          GetText(x.parsed.val, Key.enhanced_description,
                                  solution.description)]
             ELSE solution

(* enhance_solution_with_ai(solution, original_problem), the LLM answering *)
(* with reply: the solution object after the call                          *)
enhance_solution_with_ai(solution, original_problem, reply) ==
    IF reply.raises THEN solution
    ELSE LET x == ExtractJson(reply.text)
         IN  IF x.found /\ x.parsed.ok
                /\ Truthy(Get(x.parsed.val, Key.success, JNull))
             THEN [solution EXCEPT
                      !.description =
                          GetText(x.parsed.val, Key.enhanced_description,
                                  solution.description),
                      !.detailed_explanation =
                          GetText(x.parsed.val, Key.detailed_explanation,
                                  solution.detailed_explanation)]
             ELSE solution

(***************************************************************************)
(* Inputs.                                                                 *)
(***************************************************************************)
RECURSIVE TextOfWords(_, _)
(* the words of Vocabulary whose index is in S and at least i, concatenated *)
TextOfWords(S, i) ==
    IF i > Len(Vocabulary) THEN <<>>
    ELSE (IF i \in S THEN Vocabulary[i] ELSE <<>>) \o TextOfWords(S, i + 1)

(* the words tried on each engine copy, as indices in Vocabulary *)
Words == [eng \in {"cli", "web"} |-> IF eng = "cli" THEN {1, 7, 8, 9} ELSE 1..7]

Texts ==
    [eng \in {"cli", "web"} |->
        {TextOfWords(S, 1) :
            S \in {T \in SUBSET Words[eng] : Cardinality(T) <= MaxWords}}]

ProbeTexts == {<<>>, Vocabulary[3], Vocabulary[7]}

(* improving and worsening as supplied: both missing, one missing, both given *)
BasicPairs ==
    {<<>>, WebWeight} \X {<<>>, WebWeight}
        \cup {<<WebComplex, <<>>>>, <<WebWeight, WebStrength>>}

MatrixKeys ==
    [eng \in {"cli", "web"} |->
        {contradiction_matrix(eng)[i].key : i \in 1..Len(contradiction_matrix(eng))}]

(* the pairs of the matrix, in the order of the table and reversed *)
MatrixPairs ==
    [eng \in {"cli", "web"} |->
        MatrixKeys[eng] \cup {<<k[2], k[1]>> : k \in MatrixKeys[eng]}]

(* texts whose keywords appear in another order than the tables list them: *)
(* strength before weight, a cost keyword before a technical one; and the  *)
(* cost keyword of the CLI category table                                   *)
OrderTexts ==
    {Vocabulary[2] \o Vocabulary[1], Vocabulary[3] \o WebTechnical, CliCost}

(* the calls of analyze_problem explored: <<problem, improving, worsening>> *)
AnalyzeCalls ==
    [eng \in {"cli", "web"} |->
        {<<p, k[1], k[2]>> : p \in Texts[eng], k \in BasicPairs}
            \cup {<<p, k[1], k[2]>> : p \in ProbeTexts, k \in MatrixPairs[eng]}
            \cup {<<p, <<>>, <<>>>> : p \in OrderTexts}]

(* the calls explored while sessions are recorded *)
SessionCalls ==
    {<<Vocabulary[3], <<>>, <<>>>>,
     <<Vocabulary[7], WebComplex, <<>>>>,
     <<Vocabulary[1] \o Vocabulary[2], <<>>, <<>>>>}

SessionNums == {3}
ExportFormats == {FormatJSON, FormatTxt}
(* readings of datetime.now() *)
Clock == {"t1", "t2"}

MaxSolutionsRange == 1..10
NumSolutionsRange == 1..10

(***************************************************************************)
(* Construction.                                                           *)
(***************************************************************************)
NoCall ==
    [op |-> "none", problem |-> <<>>, improving |-> <<>>, worsening |-> <<>>,
     num_solutions |-> 0, improving_param |-> <<>>, worsening_param |-> <<>>,
     principle_ids |-> <<>>, solutions |-> <<>>,
     format |-> "", output |-> <<>>, input |-> <<>>]

(* the calling layer before any input, on a fresh data directory: the      *)
(* CLI's innovator has no last_problem attribute, config.json is not there *)
NoApp == [last_problem |-> <<>>, config_file |-> MissingFile]

(* the engine after construction on a fresh data directory *)
Init ==
    /\ engine \in {"cli", "web"}
    /\ is_serverless \in (IF engine = "web" THEN BOOLEAN ELSE {FALSE})
    /\ current_language = IF engine = "cli" THEN "en" ELSE "zh"
    /\ config = IF is_serverless THEN ServerlessConfig("zh")
                ELSE DefaultConfig(engine)
    /\ history = <<>>
    /\ history_file = <<>>
    /\ favorites = {}
    /\ last = NoCall
    /\ first = NoCall
    /\ app = NoApp

(* the engine constructed on a data directory whose config.json sets        *)
(* max_solutions and disables the history                                   *)
InitCalls ==
    /\ engine \in {"cli", "web"}
    /\ is_serverless = FALSE
    /\ current_language \in (IF engine = "cli" THEN {"en"} ELSE {"zh", "en"})
    /\ \E m \in MaxSolutionsRange :
          config = [DefaultConfig(engine) EXCEPT !.max_solutions = m,
                                                 !.enable_history = FALSE]
    /\ history = <<>>
    /\ history_file = <<>>
    /\ favorites = {}
    /\ last = NoCall
    /\ first = NoCall
    /\ app = NoApp

(***************************************************************************)
(* Operations.                                                             *)
(***************************************************************************)
HistoryLimit == 100

(* self.history[-100:] *)
LastN(xs, n) == IF Len(xs) <= n THEN xs ELSE SubSeq(xs, Len(xs) - n + 1, Len(xs))

(* a save that writes the whole history *)
save_history_whole(hist) ==
    IF is_serverless \/ ~config.enable_history
    THEN history_file
    ELSE hist

(* what _save_history leaves in history.pkl *)
save_history(hist) ==
    IF is_serverless \/ ~config.enable_history
    THEN history_file
    ELSE LastN(hist, HistoryLimit)

(* a history loaded from a file that holds one session less than            *)
(* _save_history keeps                                                      *)
NearlyFull == HistoryLimit - 1

(* a run records at most MaxHistory sessions, on a short history or on a   *)
(* nearly full one                                                          *)
HasRoom(hist) ==
    \/ Len(hist) < MaxHistory
    \/ NearlyFull <= Len(hist) /\ Len(hist) < NearlyFull + MaxHistory

analyze_problem(problem, improving, worsening) ==
    LET resolved == ResolveParams(engine, problem, improving, worsening)
        ids == principle_ids(engine, problem, resolved[1], resolved[2])
        solutions ==
            SortedDesc(GenerateSolutions(engine, current_language, problem,
                                         Take(ids, config.max_solutions),
                                         resolved[1], resolved[2]))
        session == [problem |-> problem,
                    improving_param |-> resolved[1],
                    worsening_param |-> resolved[2],
                    solutions |-> solutions,
                    user_rating |-> 0]          \* Optional[int] = None
    IN  /\ config.enable_history => HasRoom(history)
        /\ history' = IF config.enable_history
                      THEN Append(history, session) ELSE history
        /\ history_file' = IF config.enable_history /\ config.auto_save
                           THEN save_history(history') ELSE history_file
        /\ last' = [op |-> "analyze", problem |-> problem,
                    improving |-> improving, worsening |-> worsening,
                    num_solutions |-> 0,
                    improving_param |-> resolved[1],
                    worsening_param |-> resolved[2],
                    principle_ids |-> ids, solutions |-> solutions,
                    format |-> "", output |-> <<>>, input |-> <<>>]
        /\ first' = IF first.op = "none" THEN last' ELSE first
        /\ UNCHANGED <<engine, is_serverless, config, current_language,
                       favorites>>

(* brainstorm(problem, num_solutions); given = FALSE is num_solutions=None *)
brainstorm(problem, given, num) ==
    LET num_solutions == IF given THEN num ELSE config.max_solutions
        relevant_principles == get_smart_recommendations(engine, problem)
        solutions == GenerateSolutions(engine, current_language, problem,
                                       relevant_principles, <<>>, <<>>)
    IN  /\ last' = [op |-> "brainstorm", problem |-> problem,
                    improving |-> <<>>, worsening |-> <<>>,
                    num_solutions |-> num_solutions,
                    improving_param |-> <<>>, worsening_param |-> <<>>,
                    principle_ids |-> relevant_principles,
                    solutions |-> Take(SortedDesc(solutions), num_solutions),
                    format |-> "", output |-> <<>>, input |-> <<>>]
        /\ UNCHANGED <<engine, is_serverless, config, current_language,
                       history, history_file, favorites, first>>

(* export_solutions(solutions, format_type) at clock reading now *)
export_solutions(solutions, given, format_type, now) ==
    LET format == ExportFormat(config, given, format_type)
    IN  /\ last' = [last EXCEPT
                        !.op = "export",
                        !.solutions = solutions,
                        !.format = format,
                        !.input = [given |-> given, format_type |-> format_type],
                        !.output =
                            IF format = "json"
                            THEN export_json(engine, current_language, now, solutions)
                            ELSE export_txt(engine, current_language, now, solutions)]
        /\ UNCHANGED <<engine, is_serverless, config, current_language,
                       history, history_file, favorites, first>>

(* _generate_solution(principle_id, problem, improving, worsening) *)
generate_solution_call(problem, pid, improving, worsening) ==
    /\ last' = [op |-> "generate", problem |-> problem,
                improving |-> improving, worsening |-> worsening,
                num_solutions |-> 0,
                improving_param |-> improving, worsening_param |-> worsening,
                principle_ids |-> <<pid>>,
                solutions |-> <<generate_solution(engine, current_language,
                                                  problem, pid, improving,
                                                  worsening)>>,
                format |-> "", output |-> <<>>, input |-> <<>>]
    /\ UNCHANGED <<engine, is_serverless, config, current_language,
                   history, history_file, favorites, first>>

Analyze ==
    /\ \E c \in SessionCalls : analyze_problem(c[1], c[2], c[3])
    /\ UNCHANGED app

Brainstorm ==
    /\ \E p \in ProbeTexts : \E given \in BOOLEAN :
        \E num \in (IF given THEN SessionNums ELSE {0}) :
            brainstorm(p, given, num)
    /\ UNCHANGED app

(* the solutions on screen (CLI) or sent back by the page (web) are exported *)
Export ==
    /\ \E given \in BOOLEAN :
        \E format_type \in (IF given THEN ExportFormats ELSE {<<>>}) :
            \E now \in Clock :
                export_solutions(last.solutions, given, format_type, now)
    /\ UNCHANGED app

Next == Analyze \/ Brainstorm \/ Export

Spec == Init /\ [][Next]_vars

(* one call on a freshly constructed engine *)
AnalyzeCall ==
    /\ last.op = "none"
    /\ \E c \in AnalyzeCalls[engine] : analyze_problem(c[1], c[2], c[3])
    /\ UNCHANGED app

BrainstormCall ==
    /\ last.op = "none"
    /\ \E p \in Texts[engine] : \E given \in BOOLEAN :
        \E num \in (IF given THEN NumSolutionsRange ELSE {0}) :
            brainstorm(p, given, num)
    /\ UNCHANGED app

NextCalls == AnalyzeCall \/ BrainstormCall

SpecCalls == InitCalls /\ [][NextCalls]_vars

(* the scorer applied to every principle of the table *)
GenerateSolution ==
    /\ last.op = "none"
    /\ \E p \in Texts[engine] : \E k \in BasicPairs :
          \E pid \in DOMAIN principles(engine) :
              generate_solution_call(p, pid, k[1], k[2])
    /\ UNCHANGED app

InitScores ==
    /\ engine \in {"cli", "web"}
    /\ is_serverless = FALSE
    /\ current_language \in (IF engine = "cli" THEN {"en"} ELSE {"zh", "en"})
    /\ config = DefaultConfig(engine)
    /\ history = <<>>
    /\ history_file = <<>>
    /\ favorites = {}
    /\ last = NoCall
    /\ first = NoCall
    /\ app = NoApp

SpecScores == InitScores /\ [][GenerateSolution]_vars

(***************************************************************************)
(* Export on its own: every format value on engines whose config.json      *)
(* sets export_format.                                                     *)
(***************************************************************************)
ExportFormatsWide ==
    {FormatJson, FormatJSON, FormatJsOn, FormatTxt, FormatXml, FormatJsonSpace, <<>>}

(* config.json as found by the constructor: absent, or setting export_format *)
ExportConfigFiles ==
    {MissingFile, StoredFile([export_format |-> FormatTxt]),
     StoredFile([export_format |-> FormatJSON])}

(* the list analyze_problem returns for a call <<problem, improving, worsening>> *)
SolutionsOf(c) ==
    LET resolved == ResolveParams(engine, c[1], c[2], c[3])
        ids == principle_ids(engine, c[1], resolved[1], resolved[2])
    IN  SortedDesc(GenerateSolutions(engine, current_language, c[1],
                                     Take(ids, config.max_solutions),
                                     resolved[1], resolved[2]))

InitExport ==
    /\ engine \in {"cli", "web"}
    /\ is_serverless = FALSE
    /\ current_language \in (IF engine = "cli" THEN {"en"} ELSE {"zh", "en"})
    /\ \E file \in ExportConfigFiles : config = load_config(engine, FALSE, file)
    /\ history = <<>>
    /\ history_file = <<>>
    /\ favorites = {}
    /\ last = NoCall
    /\ first = NoCall
    /\ app = NoApp

(* one export of a list of solutions, or of the empty list *)
ExportCall ==
    /\ last.op = "none"
    /\ \E solutions \in {SolutionsOf(c) : c \in SessionCalls} \cup {<<>>} :
        \E given \in BOOLEAN :
            \E format_type \in (IF given THEN ExportFormatsWide ELSE {<<>>}) :
                \E now \in Clock :
                    export_solutions(solutions, given, format_type, now)
    /\ UNCHANGED app

SpecExport == InitExport /\ [][ExportCall]_vars

(***************************************************************************)
(* Construction on a data directory, favorites and statistics.             *)
(***************************************************************************)
(* a session of an earlier run, as unpickled: user_rating 0 is None *)
StoredSession(rating) ==
    [problem |-> Vocabulary[7], improving_param |-> <<>>,
     worsening_param |-> <<>>, solutions |-> <<>>, user_rating |-> rating]

ConfigFiles ==
    {MissingFile, UnreadableFile, UnparsableFile,
     StoredFile([max_solutions |-> 3, language |-> "zh"]),
     StoredFile([export_format |-> FormatTxt])}

HistoryFiles ==
    {MissingFile, UnreadableFile, UnparsableFile,
     StoredFile(<<StoredSession(0)>>),
     StoredFile(<<StoredSession(4), StoredSession(0), StoredSession(5)>>)}

FavoritesFiles ==
    {MissingFile, UnparsableFile, StoredFile({WebSegmentationZh})}

FavoriteNames == {WebSegmentationZh, WebDynamicsZh}

(* Translations.set_language on the fresh global t: an unknown language    *)
(* leaves "en"                                                             *)
CliLanguage(language) == IF language \in {"en", "zh"} THEN language ELSE "en"

(* __init__: the engine is constructed on the data directory held in       *)
(* last.input (app.py constructs the web core with language "zh")          *)
Construct ==
    LET dir == last.input
        loaded_config == load_config(engine, is_serverless, dir.config_file)
    IN  /\ last.op = "none"
        /\ config' = IF is_serverless THEN ServerlessConfig("zh")
                     ELSE loaded_config
        /\ history' = load_history(engine, is_serverless, dir.history_file)
        /\ favorites' = load_favorites(engine, is_serverless, dir.favorites_file)
        /\ current_language' = IF engine = "cli"
                               THEN CliLanguage(loaded_config.language)
                               ELSE "zh"
        /\ last' = [last EXCEPT !.op = "init",
                                !.output = [config |-> config',
                                            history |-> history',
                                            favorites |-> favorites']]
        /\ UNCHANGED <<engine, is_serverless, history_file, first, app>>

(* a favorite whose addition drops the oldest session *)
add_to_favorites_forgetful(principle_name) ==
    /\ favorites' = favorites \cup {principle_name}
    /\ history' = IF history = <<>> THEN history ELSE Tail(history)
    /\ last' = [NoCall EXCEPT !.op = "favorite", !.input = principle_name]
    /\ UNCHANGED <<engine, is_serverless, config, current_language,
                   history_file, first>>

(* add_to_favorites(principle_name) *)
add_to_favorites(principle_name) ==
    /\ favorites' = favorites \cup {principle_name}
    /\ last' = [NoCall EXCEPT !.op = "favorite", !.input = principle_name]
    /\ UNCHANGED <<engine, is_serverless, config, current_language,
                   history, history_file, first>>

AddToFavorites ==
    /\ last.op = "init"
    /\ \E principle_name \in FavoriteNames : add_to_favorites(principle_name)
    /\ UNCHANGED app

(* get_statistics() *)
GetStatistics ==
    /\ last.op \in {"init", "favorite"}
    /\ last' = [NoCall EXCEPT !.op = "statistics",
                              !.output = get_statistics(history, favorites)]
    /\ UNCHANGED <<engine, is_serverless, config, current_language,
                   history, history_file, favorites, first, app>>

(* main.handle_statistics, the statistics screen of the CLI: it reads      *)
(* total_sessions, rated_sessions, average_rating (when there are rated    *)
(* sessions) and favorites_count; a missing key raises KeyError            *)
handle_statistics(stats) ==
    IF {"total_sessions", "rated_sessions", "favorites_count"} \subseteq DOMAIN stats
    THEN IF stats.rated_sessions > 0 /\ "average_rating" \notin DOMAIN stats
         THEN "KeyError" ELSE "printed"
    ELSE "KeyError"

HandleStatistics ==
    /\ engine = "cli"
    /\ last.op \in {"init", "favorite"}
    /\ LET stats == get_statistics(history, favorites)
       IN  last' = [NoCall EXCEPT !.op = "handle_statistics",
                                  !.output = stats,
                                  !.format = handle_statistics(stats)]
    /\ UNCHANGED <<engine, is_serverless, config, current_language,
                   history, history_file, favorites, first, app>>

(* the engine before construction, and the data directory it will find *)
InitStore ==
    /\ engine \in {"cli", "web"}
    /\ is_serverless \in (IF engine = "web" THEN BOOLEAN ELSE {FALSE})
    /\ current_language = IF engine = "cli" THEN "en" ELSE "zh"
    /\ config = DefaultConfig(engine)
    /\ history = <<>>
    /\ history_file = <<>>
    /\ favorites = {}
    /\ \E cf \in ConfigFiles : \E hf \in HistoryFiles : \E ff \in FavoritesFiles :
          last = [NoCall EXCEPT !.input = [config_file |-> cf,
                                           history_file |-> hf,
                                           favorites_file |-> ff]]
    /\ first = NoCall
    /\ app = NoApp

NextStore == Construct \/ AddToFavorites \/ GetStatistics \/ HandleStatistics

SpecStore == InitStore /\ [][NextStore]_vars

(***************************************************************************)
(* The LLM collaborator on its own: one call of enhance_solution_with_ai   *)
(* on a solution of the web core, for every reply.                         *)
(***************************************************************************)
EnhanceSolution ==
    /\ engine = "web"
    /\ last.op = "none"
    /\ \E c \in SessionCalls :
        \E i \in 1..Len(SolutionsOf(c)) :
            \E r \in DOMAIN Reply :
                last' = [NoCall EXCEPT
                            !.op = "enhance_solution_with_ai",
                            !.problem = c[1],
                            !.input = [solution |-> SolutionsOf(c)[i],
                                       reply |-> Reply[r]],
                            !.output = enhance_solution_with_ai(SolutionsOf(c)[i],
                                                                c[1], Reply[r])]
    /\ UNCHANGED <<engine, is_serverless, config, current_language,
                   history, history_file, favorites, first, app>>

SpecLlm == Init /\ [][EnhanceSolution]_vars

(***************************************************************************)
(* The CLI's input loop.                                                   *)
(***************************************************************************)
(* the words smart_analyze_input compares problem.lower() with, and the    *)
(* problem that the word example stands for                                *)
Shortcut ==
    [back |-> <<98, 97, 99, 107>>,
     help |-> <<104, 101, 108, 112>>,
     last |-> <<108, 97, 115, 116>>,
     example |-> <<101, 120, 97, 109, 112, 108, 101>>,
     (* How to make software faster without increasing complexity? *)
     example_problem |->
        <<72, 111, 119, 32, 116, 111, 32, 109, 97, 107, 101, 32, 115, 111, 102, 116, 119, 97, 114, 101, 32, 102, 97, 115, 116, 101, 114, 32, 119, 105, 116, 104, 111, 117, 116, 32, 105, 110, 99, 114, 101, 97, 115, 105, 110, 103, 32, 99, 111, 109, 112, 108, 101, 120, 105, 116, 121, 63>>]

(* lines typed at the problem prompt *)
Line ==
    [(* 'Back' *)
     back |-> <<66, 97, 99, 107>>,
     (* 'help' *)
     help |-> <<104, 101, 108, 112>>,
     (* 'LAST' *)
     last |-> <<76, 65, 83, 84>>,
     (* 'example' *)
     example |-> <<101, 120, 97, 109, 112, 108, 101>>,
     (* '' *)
     empty |-> <<>>,
     (* '            ' *)
     blank |-> <<32, 32, 32, 32, 32, 32, 32, 32, 32, 32, 32, 32>>,
     (* '  too short   ' *)
     short |-> <<32, 32, 116, 111, 111, 32, 115, 104, 111, 114, 116, 32, 32, 32>>,
     (* '  reduce the weight  ' *)
     text |-> <<32, 32, 114, 101, 100, 117, 99, 101, 32, 116, 104, 101, 32, 119, 101, 105, 103, 104, 116, 32, 32>>]

(* smart_analyze_input() reading the lines typed: problem is the problem   *)
(* returned, returned is FALSE where it returns None ("back") or the input *)
(* ends while it still prompts                                             *)
smart_analyze_input(typed, last_problem) ==
    LET RECURSIVE StripLeft(_)
        StripLeft(s) ==
            IF s # <<>> /\ IsSpace(Head(s)) THEN StripLeft(Tail(s)) ELSE s
        RECURSIVE StripRight(_)
        StripRight(s) ==
            IF s # <<>> /\ IsSpace(s[Len(s)])
            THEN StripRight(SubSeq(s, 1, Len(s) - 1)) ELSE s
        (* problem.strip() *)
        Strip(s) == StripRight(StripLeft(s))
        None == [returned |-> FALSE, problem |-> <<>>]
        RECURSIVE Prompt(_)
        Prompt(rest) ==
            IF rest = <<>> THEN None
            ELSE LET line == Head(rest)
                     problem ==
                         IF LowerStr(line) = Shortcut.last /\ last_problem # <<>>
                         THEN last_problem
                         ELSE IF LowerStr(line) = Shortcut.example
                              THEN Shortcut.example_problem
                              ELSE line
                 IN  IF LowerStr(line) = Shortcut.back THEN None
                     ELSE IF LowerStr(line) = Shortcut.help THEN Prompt(Tail(rest))
                     ELSE IF Len(Strip(problem)) < 10 THEN Prompt(Tail(rest))
                     ELSE [returned |-> TRUE, problem |-> problem]
    IN  Prompt(typed)

(* what a calling layer leaves when it does not call the core *)
Rejected(route, request, status) ==
    /\ last' = [NoCall EXCEPT !.op = "rejected",
                              !.input = [route |-> route, request |-> request],
                              !.output = [status |-> status]]
    /\ UNCHANGED <<engine, is_serverless, config, current_language,
                   history, history_file, favorites, first, app>>

(* menu choices 1 and 2 of the CLI's main loop *)
cli_choice(choice, typed) ==
    LET input == smart_analyze_input(typed, app.last_problem)
    IN  IF input.returned /\ input.problem # <<>>
        THEN /\ app' = [app EXCEPT !.last_problem = input.problem]
             /\ IF choice = "1"
                THEN analyze_problem(input.problem, <<>>, <<>>)
                ELSE brainstorm(input.problem, FALSE, 0)
        ELSE Rejected("cli", [choice |-> choice, typed |-> typed], 0)

(* POST /api/analyze *)
api_analyze(problem, improving, worsening) ==
    IF problem = <<>>
    THEN Rejected("/api/analyze",
                  [problem |-> problem, improving |-> improving,
                   worsening |-> worsening], 400)
    ELSE /\ analyze_problem(problem, improving, worsening)
         /\ UNCHANGED app

(* POST /api/brainstorm; absent is a request without num_solutions *)
api_brainstorm(problem, absent, num) ==
    IF problem = <<>>
    THEN Rejected("/api/brainstorm", [problem |-> problem], 400)
    ELSE /\ brainstorm(problem, TRUE, IF absent THEN 5 ELSE num)
         /\ UNCHANGED app

(* POST /api/ai-analyze.  client: openrouter_client is set; reply: the     *)
(* LLM's answer to analyze_problem_with_ai; replies[i]: its answer to the  *)
(* i-th call of enhance_solution_with_ai.  The session appended to the     *)
(* history holds the list analyze_problem returns, so the history sees the *)
(* enhanced solutions, while history.pkl was written before enhancement.   *)
api_ai_analyze(problem, improving, worsening, client, reply, replies) ==
    LET request == [problem |-> problem, improving |-> improving,
                    worsening |-> worsening, client |-> client,
                    reply |-> reply, replies |-> replies]
    IN  IF ~client THEN Rejected("/api/ai-analyze", request, 503)
        ELSE IF problem = <<>> THEN Rejected("/api/ai-analyze", request, 400)
        ELSE
          \E ai_analysis \in {analyze_problem_with_ai(problem, reply)} :
          \E success \in {Truthy(Get(ai_analysis, Key.success, JNull))} :
          \E improving_param \in
                {IF success
                 THEN PyValue(Get(ai_analysis, Key.improving_param, JStr(improving)))
                 ELSE improving} :
          \E worsening_param \in
                {IF success
                 THEN PyValue(Get(ai_analysis, Key.worsening_param, JStr(worsening)))
                 ELSE worsening} :
          \E enhanced_description \in
                {IF success
                 THEN PyValue(Get(ai_analysis, Key.enhanced_description, JStr(problem)))
                 ELSE problem} :
          (* triz_engine.analyze_problem(enhanced_description, ...) *)
          \E resolved \in {ResolveParams(engine, enhanced_description,
                                         improving_param, worsening_param)} :
          \E ids \in {principle_ids(engine, enhanced_description,
                                    resolved[1], resolved[2])} :
          \E solutions \in
                {SortedDesc(GenerateSolutions(engine, current_language,
                                              enhanced_description,
                                              Take(ids, config.max_solutions),
                                              resolved[1], resolved[2]))} :
          \E session \in {[problem |-> enhanced_description,
                           improving_param |-> resolved[1],
                           worsening_param |-> resolved[2],
                           solutions |-> solutions,
                           user_rating |-> 0]} :
             /\ config.enable_history => Len(history) < MaxHistory
             /\ Len(replies) = IF success THEN Len(solutions) ELSE 0
             /\ \E enhanced_solutions \in
                    {[i \in 1..Len(solutions) |->
                        IF success
                        THEN enhance_solution_with_ai(solutions[i], problem,
                                                      replies[i])
                        ELSE solutions[i]]} :
                  /\ history' =
                        IF config.enable_history
                        THEN Append(history,
                                    [session EXCEPT
                                        !.solutions = enhanced_solutions])
                        ELSE history
                  /\ last' = [op |-> "ai-analyze",
                              problem |-> enhanced_description,
                              improving |-> improving_param,
                              worsening |-> worsening_param,
                              num_solutions |-> 0,
                              improving_param |-> resolved[1],
                              worsening_param |-> resolved[2],
                              principle_ids |-> ids, solutions |-> solutions,
                              format |-> "",
                              output |-> [status |-> 200,
                                          ai_analysis |-> ai_analysis,
                                          problem |-> problem,
                                          improving_param |-> improving_param,
                                          worsening_param |-> worsening_param,
                                          solutions |-> enhanced_solutions,
                                          ai_enhanced |-> success],
                              input |-> [route |-> "/api/ai-analyze",
                                         request |-> request]]
             /\ history_file' =
                    IF config.enable_history /\ config.auto_save
                    THEN save_history(Append(history, session))
                    ELSE history_file
             /\ UNCHANGED <<engine, is_serverless, config, current_language,
                            favorites, first, app>>

(***************************************************************************)
(* The calling layers on an engine constructed on a data directory whose   *)
(* config.json sets max_solutions 2 and whose history.pkl is absent or     *)
(* holds one session.                                                      *)
(***************************************************************************)
InitLayers ==
    /\ engine \in {"cli", "web"}
    /\ is_serverless \in (IF engine = "web" THEN BOOLEAN ELSE {FALSE})
    /\ current_language = IF engine = "cli" THEN "en" ELSE "zh"
    /\ config = load_config(engine, is_serverless,
                            StoredFile([max_solutions |-> 2]))
    /\ \E file \in {MissingFile, StoredFile(<<StoredSession(0)>>)} :
          /\ history = load_history(engine, is_serverless, file)
          /\ history_file = history
    /\ favorites = {}
    /\ last = NoCall
    /\ first = NoCall
    /\ app = NoApp

CliChoice ==
    /\ engine = "cli"
    /\ last.op \in {"none", "analyze", "brainstorm"}
    /\ \E choice \in {"1", "2"} :
        \E typed \in {<<Line.back>>, <<Line.example>>, <<Line.text>>,
                      <<Line.last>>, <<Line.short>>,
                      <<Line.help, Line.example>>, <<Line.empty, Line.text>>,
                      <<Line.blank, Line.back>>, <<Line.last, Line.text>>,
                      <<Line.help, Line.last>>} :
            cli_choice(choice, typed)

WebProblems == {<<>>, Vocabulary[3], Vocabulary[1] \o Vocabulary[2]}
WebParams == {<< <<>>, <<>> >>, <<WebWeight, WebStrength>>}

ApiAnalyze ==
    /\ engine = "web"
    /\ last.op = "none"
    /\ \E problem \in WebProblems : \E k \in WebParams :
          api_analyze(problem, k[1], k[2])

ApiBrainstorm ==
    /\ engine = "web"
    /\ last.op = "none"
    /\ \E problem \in WebProblems : \E absent \in BOOLEAN :
        \E num \in (IF absent THEN {0} ELSE {1}) :
            api_brainstorm(problem, absent, num)

ApiAiAnalyze ==
    /\ engine = "web"
    /\ last.op = "none"
    /\ \E problem \in WebProblems : \E k \in WebParams : \E client \in BOOLEAN :
        \E r \in (IF client /\ problem # <<>> THEN DOMAIN Reply ELSE {"Raises"}) :
            \E replies \in
                  {<<>>} \cup
                  (IF client /\ problem # <<>>
                   THEN UNION {[1..n -> {Reply.Enhanced, Reply.NoSuccess,
                                        Reply.Raises}] : n \in 1..2}
                   ELSE {}) :
                api_ai_analyze(problem, k[1], k[2], client, Reply[r], replies)

NextLayers == CliChoice \/ ApiAnalyze \/ ApiBrainstorm \/ ApiAiAnalyze

SpecLayers == InitLayers /\ [][NextLayers]_vars

(***************************************************************************)
(* The history: get_history, and the engine operations in any order.       *)
(***************************************************************************)
(* get_history(limit): the summaries of self.history[-limit:], reversed    *)
(* (session_id and timestamp, which no operation reads, are left out)      *)
get_history(hist, limit) ==
    LET (* the start of the slice [-limit:]: an index from the end when    *)
        (* -limit is negative, from the front otherwise (-0 is 0), clipped *)
        (* to the list                                                     *)
        start == IF -limit < 0
                 THEN (IF Len(hist) - limit > 0 THEN Len(hist) - limit ELSE 0)
                 ELSE (IF -limit > Len(hist) THEN Len(hist) ELSE -limit)
        recent_history == IF hist # <<>>
                          THEN SubSeq(hist, start + 1, Len(hist))
                          ELSE <<>>
        summary(session) == [problem |-> session.problem,
                             solution_count |-> Len(session.solutions),
                             rating |-> session.user_rating]
    IN  [i \in 1..Len(recent_history) |->
            summary(recent_history[Len(recent_history) + 1 - i])]

(* the limits tried: none, fewer than the sessions, the default of 10 *)
Limits == {0, 1, 2, 10}

GetHistory ==
    /\ \E limit \in Limits :
          last' = [NoCall EXCEPT !.op = "get_history",
                                 !.input = [limit |-> limit],
                                 !.output = get_history(history, limit)]
    /\ UNCHANGED <<engine, is_serverless, config, current_language,
                   history, history_file, favorites, first, app>>

(* one call of each operation that is not analyze_problem, between the     *)
(* analyses                                                                *)
AddFavorite ==
    /\ add_to_favorites(WebSegmentationZh)
    /\ UNCHANGED app

BrainstormDefault ==
    /\ brainstorm(Vocabulary[3], FALSE, 0)
    /\ UNCHANGED app

ExportDefault ==
    /\ \E now \in Clock : export_solutions(last.solutions, FALSE, <<>>, now)
    /\ UNCHANGED app

(* the engine constructed on a fresh data directory, or on one whose       *)
(* config.json disables the history                                        *)
InitHistory ==
    /\ engine \in {"cli", "web"}
    /\ is_serverless = FALSE
    /\ current_language = IF engine = "cli" THEN "en" ELSE "zh"
    /\ \E enable_history \in BOOLEAN :
          config = [DefaultConfig(engine) EXCEPT !.enable_history = enable_history]
    /\ history = <<>>
    /\ history_file = <<>>
    /\ favorites = {}
    /\ last = NoCall
    /\ first = NoCall
    /\ app = NoApp

NextHistory ==
    Analyze \/ BrainstormDefault \/ ExportDefault \/ AddFavorite \/ GetHistory

SpecHistory == InitHistory /\ [][NextHistory]_vars

(***************************************************************************)
(* Saving: analyses on an empty history and on one loaded from a history   *)
(* file that is nearly full.                                               *)
(***************************************************************************)
(* history.pkl as an earlier run left it: NearlyFull sessions, told apart  *)
(* by their ratings                                                        *)
NearlyFullFile == [i \in 1..NearlyFull |-> StoredSession(i % 6)]

InitSave ==
    /\ engine \in {"cli", "web"}
    /\ is_serverless \in (IF engine = "web" THEN BOOLEAN ELSE {FALSE})
    /\ current_language = IF engine = "cli" THEN "en" ELSE "zh"
    /\ \E enable_history, auto_save \in BOOLEAN :
          config = IF is_serverless THEN ServerlessConfig("zh")
                   ELSE [DefaultConfig(engine) EXCEPT
                            !.enable_history = enable_history,
                            !.auto_save = auto_save]
    /\ history_file \in {<<>>, NearlyFullFile}
    /\ history = IF is_serverless THEN <<>> ELSE history_file
    /\ favorites = {}
    /\ last = NoCall
    /\ first = NoCall
    /\ app = NoApp

SpecSave == InitSave /\ [][Analyze]_vars

(***************************************************************************)
(* Settings and language: the CLI's settings screen and language toggle,   *)
(* the web core's set_language, and the engine created again on the data   *)
(* directory the operations left.                                          *)
(***************************************************************************)
(* int(text) of Python on a str: surrounding whitespace stripped, an       *)
(* optional sign, decimal digits with single underscores between them;     *)
(* ok is FALSE where int raises ValueError                                 *)
PyInt(text) ==
    LET nonspace == {i \in 1..Len(text) : ~IsSpace(text[i])}
        stripped ==
            IF nonspace = {} THEN <<>>
            ELSE SubSeq(text,
                        CHOOSE i \in nonspace : \A j \in nonspace : i <= j,
                        CHOOSE i \in nonspace : \A j \in nonspace : i >= j)
        signed == stripped # <<>> /\ stripped[1] \in {43, 45}
        body == IF signed THEN Tail(stripped) ELSE stripped
        IsDigit(c) == c \in 48..57
        well_formed ==
            /\ body # <<>>
            /\ \A i \in 1..Len(body) :
                  \/ IsDigit(body[i])
                  \/ /\ body[i] = 95
                     /\ 1 < i /\ i < Len(body)
                     /\ IsDigit(body[i - 1]) /\ IsDigit(body[i + 1])
        RECURSIVE Value(_, _)
        Value(i, acc) ==
            IF i > Len(body) THEN acc
            ELSE Value(i + 1, IF body[i] = 95 THEN acc
                              ELSE acc * 10 + (body[i] - 48))
    IN  [ok |-> well_formed,
         value |-> IF ~well_formed THEN 0
                   ELSE IF signed /\ stripped[1] = 45 THEN 0 - Value(1, 0)
                   ELSE Value(1, 0)]

(* _save_config: json.dump(self.config); a language of "" stands for a     *)
(* dict without the key, and the file does not have the key either         *)
save_config(cfg) ==
    StoredFile([k \in {key \in DOMAIN cfg :
                          key = "language" => cfg.language # ""} |-> cfg[k]])

(* a settings screen that stores every number typed *)
handle_settings_unchecked(choice, typed) ==
    /\ config' = IF choice = "1" /\ PyInt(typed).ok
                 THEN [config EXCEPT !.max_solutions = PyInt(typed).value]
                 ELSE config
    /\ app' = [app EXCEPT !.config_file = save_config(config')]
    /\ last' = [NoCall EXCEPT !.op = "settings",
                              !.input = [choice |-> choice, typed |-> typed]]
    /\ UNCHANGED <<engine, is_serverless, current_language, history,
                   history_file, favorites, first>>

(* main.handle_settings(): choice is the operation selected, typed the     *)
(* answer to "Enter max solutions (1-10)"                                  *)
handle_settings(choice, typed) ==
    LET new_max == PyInt(typed)
        accepted == new_max.ok /\ 1 <= new_max.value /\ new_max.value <= 10
        saved == (choice = "1" /\ accepted) \/ choice = "2"
    IN  /\ config' = IF choice = "1" /\ accepted
                     THEN [config EXCEPT !.max_solutions = new_max.value]
                     ELSE IF choice = "2"
                     THEN [config EXCEPT !.enable_history = ~config.enable_history]
                     ELSE config
        /\ app' = IF saved
                  THEN [app EXCEPT !.config_file = save_config(config')]
                  ELSE app
        /\ last' = [NoCall EXCEPT
                       !.op = "settings",
                       !.input = [choice |-> choice, typed |-> typed],
                       !.format = IF choice = "1"
                                  THEN (IF ~new_max.ok THEN "Input format error"
                                        ELSE IF accepted THEN "Settings saved"
                                        ELSE "Value out of range")
                                  ELSE IF choice = "2" THEN "History" ELSE ""]
        /\ UNCHANGED <<engine, is_serverless, current_language, history,
                       history_file, favorites, first>>

(* toggle_language of the CLI engine (choice "l" of the main loop) *)
toggle_language ==
    LET new_lang == IF current_language = "en" THEN "zh" ELSE "en"
    IN  /\ current_language' = new_lang
        /\ config' = [config EXCEPT !.language = new_lang]
        /\ app' = [app EXCEPT !.config_file = save_config(config')]
        /\ last' = [NoCall EXCEPT !.op = "toggle_language",
                                  !.output = new_lang]
        /\ UNCHANGED <<engine, is_serverless, history, history_file,
                       favorites, first>>

(* set_language(language) of the web core *)
set_language(language) ==
    /\ IF language \in {"zh", "en"}
       THEN /\ current_language' = language
            /\ config' = [config EXCEPT !.language = language]
            /\ app' = IF ~is_serverless
                      THEN [app EXCEPT !.config_file = save_config(config')]
                      ELSE app
       ELSE UNCHANGED <<current_language, config, app>>
    /\ last' = [NoCall EXCEPT !.op = "set_language",
                              !.input = [language |-> language]]
    /\ UNCHANGED <<engine, is_serverless, history, history_file,
                   favorites, first>>

(* the answers typed at "Enter max solutions (1-10)" *)
Typed ==
    [one |-> <<49>>, seven |-> <<32, 55, 32>>, ten |-> <<49, 48>>,
     plus_three |-> <<43, 51>>, zero |-> <<48>>, eleven |-> <<49, 49>>,
     minus_one |-> <<45, 49>>, words |-> <<97, 98, 99>>, empty |-> <<>>,
     decimal |-> <<53, 46, 48>>]

HandleSettings ==
    /\ engine = "cli"
    /\ \E choice \in {"1", "2", "3"} :
        \E typed \in (IF choice = "1"
                      THEN {Typed[k] : k \in DOMAIN Typed} ELSE {<<>>}) :
            handle_settings(choice, typed)

ToggleLanguage ==
    /\ engine = "cli"
    /\ toggle_language

SetLanguage ==
    /\ engine = "web"
    /\ \E language \in {"zh", "en", "fr"} : set_language(language)

(* the process ends and the engine is constructed again on the data        *)
(* directory: the CLI by main, the web core by app.py with no language     *)
(* argument                                                                *)
Restart ==
    /\ config' = IF is_serverless THEN ServerlessConfig("zh")
                 ELSE load_config(engine, is_serverless, app.config_file)
    /\ current_language' = IF engine = "cli"
                           THEN CliLanguage(config'.language)
                           ELSE "zh"
    /\ history' = IF is_serverless THEN <<>> ELSE history_file
    /\ favorites' = IF is_serverless THEN {} ELSE favorites
    /\ last' = [NoCall EXCEPT !.op = "restart"]
    /\ UNCHANGED <<engine, is_serverless, history_file, first, app>>

(* the engine constructed on a data directory whose config.json is missing *)
(* or was written by an earlier run                                        *)
InitSettings ==
    /\ engine \in {"cli", "web"}
    /\ is_serverless \in (IF engine = "web" THEN BOOLEAN ELSE {FALSE})
    /\ \E file \in {MissingFile,
                    StoredFile([max_solutions |-> 1]),
                    StoredFile([max_solutions |-> 10, language |-> "zh"])} :
          /\ app = [NoApp EXCEPT !.config_file = file]
          /\ config = IF is_serverless THEN ServerlessConfig("zh")
                      ELSE load_config(engine, is_serverless, file)
    /\ current_language = IF engine = "cli"
                          THEN CliLanguage(config.language)
                          ELSE "zh"
    /\ history = <<>>
    /\ history_file = <<>>
    /\ favorites = {}
    /\ last = NoCall
    /\ first = NoCall

NextSettings == HandleSettings \/ ToggleLanguage \/ SetLanguage \/ Restart

SpecSettings == InitSettings /\ [][NextSettings]_vars

(***************************************************************************)
(* Properties.                                                             *)
(***************************************************************************)
(* the principle ids of a list of solutions, in order *)
Ids(solutions) == [i \in 1..Len(solutions) |-> solutions[i].principle_id]

(* the ids of a candidate list that the principle table has *)
Present(eng, ids) == SelectSeq(ids, LAMBDA pid : pid \in DOMAIN principles(eng))

(* the text contains a keyword of the k-th parameter, as written in the table *)
HitsParameter(eng, k, text) ==
    \E i \in 1..Len(parameter_keywords(eng)[k].keywords) :
        Contains(parameter_keywords(eng)[k].keywords[i], text)

(* the candidate list the matrix holds for a pair, <<>> when it has no entry *)
MatrixEntry(eng, pair) ==
    LET hit == SelectSeq(contradiction_matrix(eng), LAMBDA e : e.key = pair)
    IN  IF hit # <<>> THEN hit[1].ids ELSE <<>>

(* C1: for every problem text and every improving/worsening pair, empty    *)
(* strings included, the candidate principle-id list that analyze_problem  *)
(* selects is non-empty, in the CLI engine and in the web core.            *)
C1_CandidatesNonEmpty ==
    last.op = "analyze" => last.principle_ids # <<>>

(* an analysis of the web core that fell through to the global default *)
C1_Witness ==
    /\ last.op = "analyze"
    /\ engine = "web"
    /\ last.problem = Vocabulary[7]
    /\ last.improving = <<>> /\ last.worsening = <<>>
    /\ last.principle_ids = <<1, 2, 15, 27, 35>>

(* C2: when analyze_problem is called with empty improving and worsening   *)
(* on a text that matches no parameter keyword, no category keyword and no *)
(* principle keyword or example word, the candidates are [1,2,15,27,35]    *)
(* and every returned solution has confidence exactly 0.6 and relevance    *)
(* exactly 0.0.                                                            *)
C2_NoMatchScores ==
    (/\ last.op = "analyze"
     /\ last.improving = <<>> /\ last.worsening = <<>>
     /\ smart_parameter_detection(engine, last.problem) = <<>>
     /\ categorize_problem(engine, last.problem) = GeneralProblem
     /\ \A pid \in DOMAIN principles(engine) :
           calculate_relevance(engine, LangOf(engine, current_language),
                               last.problem, pid) = F0)
    => /\ last.principle_ids = <<1, 2, 15, 27, 35>>
       /\ \A i \in 1..Len(last.solutions) :
             /\ last.solutions[i].confidence = F06
             /\ last.solutions[i].relevance_score = F0

(* C3: for every problem text, every principle of the table and every      *)
(* improving/worsening pair, the confidence lies in [0.6, 0.95] and the    *)
(* relevance in [0.0, 1.0].                                                *)
C3_ScoresInRange ==
    \A i \in 1..Len(last.solutions) :
        /\ FloatLeq(F06, last.solutions[i].confidence)
        /\ FloatLeq(last.solutions[i].confidence, F095)
        /\ FloatLeq(F0, last.solutions[i].relevance_score)
        /\ FloatLeq(last.solutions[i].relevance_score, F1)

(* a solution of principle 1 for a text with its five keywords and a word  *)
(* of one of its examples: both scores are at their caps                   *)
C3_Witness ==
    /\ last.op = "generate"
    /\ last.problem = Vocabulary[5] \o Vocabulary[6]
    /\ last.principle_ids = <<1>>
    /\ last.solutions[1].confidence = F095
    /\ last.solutions[1].relevance_score = F1

(* C4: for every input and every config.max_solutions in 1..10,            *)
(* analyze_problem returns at most max_solutions solutions, and the list   *)
(* is non-increasing in (confidence + relevance_score) / 2.                *)
C4_BoundedAndSorted ==
    last.op = "analyze" =>
        /\ Len(last.solutions) <= config.max_solutions
        /\ \A i \in 1..(Len(last.solutions) - 1) :
              FloatLeq(SortKey(last.solutions[i + 1]), SortKey(last.solutions[i]))

(* an analysis that cut the candidate list and moved a later candidate to  *)
(* the front                                                               *)
C4_Witness ==
    /\ last.op = "analyze"
    /\ Len(last.principle_ids) > config.max_solutions
    /\ Len(last.solutions) = config.max_solutions
    /\ last.solutions[1].principle_id # last.principle_ids[1]
    /\ FloatLess(SortKey(last.solutions[Len(last.solutions)]),
                 SortKey(last.solutions[1]))

(* C5: in both engine copies, with max_solutions = 5 and empty improving   *)
(* and worsening, a problem text that hits the keyword sets of the weight  *)
(* parameter and of the strength parameter resolves to the matrix entry    *)
(* (weight, strength) -> [1,8,15,40], and analyze_problem returns exactly  *)
(* 4 solutions whose principle ids are a subset of {1,8,15,40}.            *)
C5_WeightStrength ==
    (/\ last.op = "analyze"
     /\ config.max_solutions = 5
     /\ last.improving = <<>> /\ last.worsening = <<>>
     /\ HitsParameter(engine, 1, last.problem)
     /\ HitsParameter(engine, 2, last.problem))
    => /\ last.principle_ids = <<1, 8, 15, 40>>
       /\ Len(last.solutions) = 4
       /\ \A i \in 1..Len(last.solutions) :
             last.solutions[i].principle_id \in {1, 8, 15, 40}

(* C6: for every pair (A, B) such that the matrix has an entry for (A, B)  *)
(* and none for (B, A), analyze_problem called with improving = B and      *)
(* worsening = A takes its candidate ids from the (A, B) entry.            *)
C6_ReversedPair ==
    (/\ last.op = "analyze"
     /\ MatrixEntry(engine, <<last.worsening, last.improving>>) # <<>>
     /\ MatrixEntry(engine, <<last.improving, last.worsening>>) = <<>>)
    => last.principle_ids
           = MatrixEntry(engine, <<last.worsening, last.improving>>)

(* C8: for every problem text and every num_solutions in 1..10, brainstorm *)
(* returns exactly min(num_solutions, number of category-default candidate *)
(* ids present in the principle table) solutions, each generated with      *)
(* improving and worsening both the empty string.                          *)
C8_BrainstormCount ==
    last.op = "brainstorm" =>
        LET available == Len(Present(engine, last.principle_ids))
        IN  /\ Len(last.solutions)
                  = IF last.num_solutions < available
                    THEN last.num_solutions ELSE available
            /\ \A i \in 1..Len(last.solutions) :
                  /\ last.solutions[i].description.improving = <<>>
                  /\ last.solutions[i].description.worsening = <<>>

(* a brainstorm on a text with parameter keywords, cut to three solutions *)
C8_Witness ==
    /\ last.op = "brainstorm"
    /\ last.problem = Vocabulary[1] \o Vocabulary[2]
    /\ last.num_solutions = 3
    /\ Len(Present(engine, last.principle_ids)) = 5
    /\ Len(last.solutions) = 3

(* the ids and scores of a list of solutions, in order *)
Scores(solutions) ==
    [i \in 1..Len(solutions) |->
        <<solutions[i].principle_id, solutions[i].confidence,
          solutions[i].relevance_score>>]

(* C9: two analyze_problem calls with identical (problem, improving,       *)
(* worsening), made with unchanged tables, config and language, return the *)
(* same sequence of principle ids with the same confidence and relevance,  *)
(* whatever sessions the history recorded by or between the calls.         *)
C9_SameCallSameResult ==
    (/\ last.op = "analyze"
     /\ first.op = "analyze"
     /\ last.problem = first.problem
     /\ last.improving = first.improving
     /\ last.worsening = first.worsening)
    => Scores(last.solutions) = Scores(first.solutions)

(* the first call made again after a different call, all three recorded *)
C9_Witness ==
    /\ last.op = "analyze"
    /\ Len(history) = 3
    /\ history[2].problem # history[1].problem
    /\ last.problem = first.problem
    /\ last.improving = first.improving
    /\ last.worsening = first.worsening
    /\ Scores(last.solutions) = Scores(first.solutions)

(* C10: for every list of solutions, the JSON export carries a solution    *)
(* count equal to len(solutions) and a solutions list whose principle ids  *)
(* are the input's principle ids in the same order: reading the export     *)
(* back gives the count, the ids and their order.                          *)
C10_JsonRoundTrip ==
    (last.op = "export" /\ last.format = "json") =>
        LET data == loads(last.output)
            exported == Item(data, "solutions").v
        IN  /\ Item(data, "solution_count").v = Len(last.solutions)
            /\ [i \in 1..Len(exported) |-> Item(exported[i], "principle_id").v]
                   = Ids(last.solutions)

(* a JSON export of the five solutions of a cost problem *)
C10_Witness ==
    /\ last.op = "export"
    /\ last.format = "json"
    /\ Ids(last.solutions) = <<27, 35, 1, 2, 40>>
    /\ Len(Item(loads(last.output), "solutions").v) = 5


(***************************************************************************)
(* Properties of parameter resolution and of the candidate list.           *)
(***************************************************************************)
(* the parameters, by position in the table, that the text is detected to  *)
(* mention: a keyword of the parameter occurs in the lower-cased text      *)
Detected(eng, text) ==
    {k \in 1..Len(parameter_keywords(eng)) :
        AnyKeywordIn(parameter_keywords(eng)[k].keywords, LowerStr(text))}

(* the parameters of a set of table positions, in table order *)
InTableOrder(eng, D) ==
    LET all == [k \in 1..Len(parameter_keywords(eng)) |-> k]
        kept == SelectSeq(all, LAMBDA k : k \in D)
    IN  [i \in 1..Len(kept) |-> parameter_keywords(eng)[kept[i]].param]

(* the text contains a keyword of the k-th category, as written in the table *)
HitsCategory(eng, k, text) ==
    \E i \in 1..Len(problem_categories(eng)[k].keywords) :
        Contains(problem_categories(eng)[k].keywords[i], text)

(* C17: when detection finds exactly one parameter d, each of improving and *)
(* worsening that the caller left empty is filled with d (the default       *)
(* parameter is assigned to worsening only if it is still empty after       *)
(* that); with improving supplied and worsening empty, worsening is d.      *)
C17_SingleDetectedFillsBoth ==
    (/\ last.op = "analyze"
     /\ last.improving = <<>> \/ last.worsening = <<>>
     /\ Cardinality(Detected(engine, last.problem)) = 1)
    => LET d == InTableOrder(engine, Detected(engine, last.problem))[1]
       IN  /\ last.improving_param
                 = IF last.improving = <<>> THEN d ELSE last.improving
           /\ last.worsening_param
                 = IF last.worsening = <<>> THEN d ELSE last.worsening

(* C18: when neither orientation of the resolved pair is in the matrix and *)
(* the problem text hits at least one category keyword set, the candidate  *)
(* list is the list configured for the first matching category in table    *)
(* order, in both engine copies; the global default [1,2,15,27,35] is used *)
(* only when no category matches.                                          *)
C18_CategoryDefault ==
    (/\ last.op = "analyze"
     /\ MatrixEntry(engine, <<LowerStr(last.improving_param),
                              LowerStr(last.worsening_param)>>) = <<>>
     /\ MatrixEntry(engine, <<LowerStr(last.worsening_param),
                              LowerStr(last.improving_param)>>) = <<>>)
    => LET hits == {k \in 1..Len(problem_categories(engine)) :
                        HitsCategory(engine, k, last.problem)}
       IN  IF hits # {}
           THEN LET k == CHOOSE h \in hits : \A g \in hits : h <= g
                IN  last.principle_ids = recommendations(engine)[k].ids
           ELSE last.principle_ids = <<1, 2, 15, 27, 35>>

(* C19: the principle ids that brainstorm returns are always among the     *)
(* first num_solutions ids of the category-default candidate list,         *)
(* whatever the scores of the later candidates.                            *)
C19_BrainstormTruncatesFirst ==
    last.op = "brainstorm" =>
        \A i \in 1..Len(last.solutions) :
            \E j \in 1..Len(last.principle_ids) :
                /\ j <= last.num_solutions
                /\ last.principle_ids[j] = last.solutions[i].principle_id

(* C20: a non-empty improving or worsening supplied by the caller is never *)
(* replaced by auto-detection; when both are empty and at least two        *)
(* parameters are detected, improving becomes the first detected parameter *)
(* and worsening the second, in parameter-table order (not in the order    *)
(* in which they appear in the text).                                      *)
C20_SuppliedKeptDetectedInTableOrder ==
    last.op = "analyze" =>
        /\ last.improving # <<>> => last.improving_param = last.improving
        /\ last.worsening # <<>> => last.worsening_param = last.worsening
        /\ (/\ last.improving = <<>> /\ last.worsening = <<>>
            /\ Cardinality(Detected(engine, last.problem)) >= 2)
           => LET d == InTableOrder(engine, Detected(engine, last.problem))
              IN  /\ last.improving_param = d[1]
                  /\ last.worsening_param = d[2]

(* strength is named before weight in the text, weight comes first in the  *)
(* table: improving is weight, worsening is strength                       *)
C20_Witness ==
    /\ last.op = "analyze"
    /\ engine = "web"
    /\ last.problem = Vocabulary[2] \o Vocabulary[1]
    /\ last.improving = <<>> /\ last.worsening = <<>>
    /\ last.improving_param = WebWeight
    /\ last.worsening_param = WebStrength

(* a supplied improving parameter kept on a text that names two others *)
C20_WitnessSupplied ==
    /\ last.op = "analyze"
    /\ engine = "web"
    /\ last.improving = WebComplex
    /\ last.worsening = <<>>
    /\ Cardinality(Detected(engine, last.problem)) >= 2
    /\ last.improving_param = WebComplex

(***************************************************************************)
(* Properties of the export.                                               *)
(***************************************************************************)
(* "json" in every mix of upper and lower case *)
JsonSpellings ==
    {<<j, s, o, n>> : j \in {106, 74}, s \in {115, 83}, o \in {111, 79}, n \in {110, 78}}

(* the output is the JSON report of the solutions *)
IsJsonReport(output, solutions) ==
    /\ output # <<>>
    /\ "t" \in DOMAIN output[1]
    /\ output[1].t = "{"
    /\ Item(loads(output), "solution_count").v = Len(solutions)

(* the output is the text report of the solutions *)
IsTextReport(output, solutions) ==
    /\ output # <<>>
    /\ "kind" \in DOMAIN output[1]
    /\ output[1].kind = "title"
    /\ \E i \in 1..Len(output) :
          output[i].kind = "count" /\ output[i].value = Len(solutions)

(* C11: export_solutions produces the JSON report exactly when the format  *)
(* value equals "json" ignoring letter case and the text report for every  *)
(* other format value, never an empty result; a format of None uses        *)
(* config.export_format.                                                   *)
C11_ExportFormatDispatch ==
    last.op = "export" =>
        LET chosen == IF last.input.given THEN last.input.format_type
                      ELSE config.export_format
        IN  IF chosen \in JsonSpellings
            THEN IsJsonReport(last.output, last.solutions)
            ELSE IsTextReport(last.output, last.solutions)

(* an unrecognized format falls back to the text report; a mixed-case      *)
(* "JSON" from the config is used when no format is given                  *)
C11_Witness ==
    /\ last.op = "export"
    /\ last.input.given
    /\ last.input.format_type = FormatXml
    /\ Len(last.solutions) = 5
    /\ IsTextReport(last.output, last.solutions)

C11_WitnessConfig ==
    /\ last.op = "export"
    /\ ~last.input.given
    /\ config.export_format = FormatJSON
    /\ IsJsonReport(last.output, last.solutions)

(***************************************************************************)
(* Properties of the statistics and of the load operations.                *)
(***************************************************************************)
(* C12: in every reachable state, an empty history included,               *)
(* get_statistics returns a record with all four fields total_sessions,    *)
(* rated_sessions, average_rating and favorites_count.                     *)
C12_StatisticsFields ==
    last.op \in {"statistics", "handle_statistics"} =>
        DOMAIN last.output = {"total_sessions", "rated_sessions",
                              "average_rating", "favorites_count"}

(* the defaults as documented *)
DocumentedDefaults ==
    [max_solutions |-> 5, enable_history |-> TRUE, auto_save |-> TRUE,
     export_format |-> FormatJson, language |-> "en"]

(* C16: in both engine copies, when the stored file is missing, unreadable *)
(* or unparsable, _load_config returns exactly the documented defaults     *)
(* (max_solutions 5, enable_history true, auto_save true, export_format    *)
(* json, language en), _load_history the empty list and _load_favorites    *)
(* the empty set.                                                          *)
C16_LoadDefaults ==
    last.op = "init" =>
        /\ LoadFails(last.input.config_file)
              => last.output.config = DocumentedDefaults
        /\ LoadFails(last.input.history_file) => last.output.history = <<>>
        /\ LoadFails(last.input.favorites_file) => last.output.favorites = {}

(***************************************************************************)
(* The LLM collaborator.                                                   *)
(***************************************************************************)
(* C14: enhance_solution_with_ai returns the input solution with every     *)
(* field unchanged for a reply that raises, has no braces, is malformed    *)
(* JSON or has no truthy success; for every other reply only description   *)
(* and detailed_explanation may differ from the input's.                   *)
C14_EnhanceFrame ==
    LET without_success ==
            {Reply.Raises, Reply.Prose, Reply.Unclosed, Reply.ClosedFirst,
             Reply.NotJson, Reply.ExtraData, Reply.RawNewline,
             Reply.SuccessFalse, Reply.NoSuccess, Reply.EmptyDescription}
        frame ==
            {"principle", "principle_id", "examples", "confidence",
             "relevance_score", "category", "tags"}
    IN  last.op = "enhance_solution_with_ai" =>
            /\ DOMAIN last.output = DOMAIN last.input.solution
            /\ \A f \in frame : last.output[f] = last.input.solution[f]
            /\ last.input.reply \in without_success =>
                   last.output = last.input.solution

(* a reply with a truthy success has overwritten both texts *)
C14_Witness ==
    /\ last.op = "enhance_solution_with_ai"
    /\ last.input.reply = Reply.Enhanced
    /\ last.output.description = [ai |-> <<68>>]
    /\ last.output.detailed_explanation = [ai |-> <<88>>]
    /\ last.output.description # last.input.solution.description

(* a reply that parses but has no success entry has changed nothing *)
C14_WitnessFallback ==
    /\ last.op = "enhance_solution_with_ai"
    /\ last.input.reply = Reply.NoSuccess
    /\ last.output = last.input.solution

(***************************************************************************)
(* The calling layers.                                                     *)
(***************************************************************************)
(* C13: no calling layer invokes the core's analyze_problem or brainstorm  *)
(* with an empty problem string, whatever the LLM replies; a request with  *)
(* an empty problem is not passed on, and a request that is rejected       *)
(* leaves the history and history.pkl as they were.                        *)
C13_EmptyProblemRejected ==
    [][/\ last'.op \in {"analyze", "brainstorm", "ai-analyze"} =>
              last'.problem # <<>>
       /\ last'.op = "ai-analyze" => last'.input.request.problem # <<>>
       /\ last'.op = "rejected" =>
              /\ history' = history
              /\ history_file' = history_file]_vars

(* C15: when the analysis call raises, the reply has no opening brace or   *)
(* the text from the first opening to the last closing brace is not valid  *)
(* JSON, analyze_problem_with_ai returns {success: false}, and             *)
(* /api/ai-analyze runs the core analysis on the original problem with the *)
(* caller's improving and worsening, enhances no solution and reports      *)
(* ai_enhanced false.                                                      *)
C15_AiFailureFallsBack ==
    LET failing ==
            {Reply.Raises, Reply.Prose, Reply.Unclosed, Reply.ClosedFirst,
             Reply.NotJson, Reply.ExtraData, Reply.RawNewline}
    IN  (last.op = "ai-analyze" /\ last.input.request.reply \in failing) =>
            LET request == last.input.request
            IN  /\ last.output.ai_analysis =
                       JObject(<< <<Key.success, JBool(FALSE)>> >>)
                /\ last.problem = request.problem
                /\ last.improving = request.improving
                /\ last.worsening = request.worsening
                /\ last.solutions =
                       SolutionsOf(<<request.problem, request.improving,
                                     request.worsening>>)
                /\ request.replies = <<>>
                /\ last.output.solutions = last.solutions
                /\ last.output.improving_param = request.improving
                /\ last.output.worsening_param = request.worsening
                /\ last.output.ai_enhanced = FALSE

(* a reply that is not JSON: the core has analysed the caller's request *)
C15_Witness ==
    /\ last.op = "ai-analyze"
    /\ last.input.request.reply = Reply.NotJson
    /\ last.input.request.improving = WebWeight
    /\ last.improving = WebWeight
    /\ last.problem = Vocabulary[3]
    /\ Len(last.output.solutions) = 2
    /\ last.output.ai_enhanced = FALSE
    /\ Len(history) = 2

(* the analysis call raised *)
C15_WitnessRaises ==
    /\ last.op = "ai-analyze"
    /\ last.input.request.reply = Reply.Raises
    /\ last.output.solutions = last.solutions
    /\ last.solutions # <<>>

C22_HistoryChangesOnlyByAnalyze ==
    [][IF last'.op = "analyze" /\ config.enable_history
       THEN history' = Append(history,
                              [problem |-> last'.problem,
                               improving_param |-> last'.improving_param,
                               worsening_param |-> last'.worsening_param,
                               solutions |-> last'.solutions,
                               user_rating |-> 0])
       ELSE history' = history]_vars

(* two sessions recorded, then a favorite added: both sessions are there *)
C22_Witness ==
    /\ last.op = "favorite"
    /\ Len(history) = 2
    /\ history[1].problem = Vocabulary[3]
    /\ history[2].problem = Vocabulary[7]
    /\ history[2].solutions # <<>>

(* an analysis with the history disabled, after a brainstorm *)
C22_WitnessDisabled ==
    /\ last.op = "analyze"
    /\ ~config.enable_history
    /\ history = <<>>
    /\ last.solutions # <<>>

(* C23: every analyze_problem call made with enable_history and auto_save  *)
(* true leaves in the history file the last min(100, n) of the n sessions  *)
(* in memory, in the same order, and the history in memory grows by one    *)
(* session without being truncated; with enable_history false the call     *)
(* writes nothing.                                                         *)
C23_PersistedIsLastHundred ==
    [][last'.op = "analyze" =>
          IF config.enable_history
          THEN /\ Len(history') = Len(history) + 1
               /\ config.auto_save =>
                     LET n == Len(history')
                         kept == IF n < 100 THEN n ELSE 100
                     IN  /\ Len(history_file') = kept
                         /\ \A i \in 1..kept :
                               history_file'[i] = history'[n - kept + i]
          ELSE /\ history_file' = history_file
               /\ history' = history]_vars

(* the second analysis on a history of 99 sessions: 101 sessions in        *)
(* memory, the last 100 in the file                                        *)
C23_Witness ==
    /\ last.op = "analyze"
    /\ config.enable_history /\ config.auto_save
    /\ Len(history) = 101
    /\ Len(history_file) = 100
    /\ history[1] # history[2]
    /\ history_file[1] = history[2]
    /\ history_file[100] = history[101]
    /\ history[101].solutions = last.solutions

(* C24: the solutions stored in the session that analyze_problem recorded  *)
(* are a snapshot: after /api/ai-analyze has applied the LLM enhancement   *)
(* to the list analyze_problem returned, the description and the           *)
(* detailed_explanation of the stored solutions are still those that       *)
(* analyze_problem generated.                                              *)
C24_SessionIsSnapshot ==
    (last.op = "ai-analyze" /\ config.enable_history) =>
        LET stored == history[Len(history)].solutions
        IN  /\ Len(stored) = Len(last.solutions)
            /\ \A i \in 1..Len(stored) :
                  /\ stored[i].description = last.solutions[i].description
                  /\ stored[i].detailed_explanation
                        = last.solutions[i].detailed_explanation

(* C25: in the result of analyze_problem and of brainstorm, solutions with *)
(* equal (confidence + relevance_score) / 2 are in the relative order of   *)
(* their ids in the candidate list: the descending sort is stable.         *)
C25_SortIsStable ==
    last.op \in {"analyze", "brainstorm"} =>
        LET position(pid) ==
                CHOOSE k \in 1..Len(last.principle_ids) :
                    /\ last.principle_ids[k] = pid
                    /\ \A m \in 1..(k - 1) : last.principle_ids[m] # pid
            key(i) == SortKey(last.solutions[i])
        IN  \A i, j \in 1..Len(last.solutions) :
                (/\ i < j
                 /\ ~FloatLess(key(i), key(j))
                 /\ ~FloatLess(key(j), key(i)))
                => position(last.solutions[i].principle_id)
                       < position(last.solutions[j].principle_id)

(* a cost problem with the keyword of principle 40: candidates             *)
(* [27, 35, 1, 2, 40], 40 sorted to the front, the four others tied and in *)
(* the order of the candidates                                             *)
C25_Witness ==
    /\ last.op = "brainstorm"
    /\ engine = "web"
    /\ last.principle_ids = <<27, 35, 1, 2, 40>>
    /\ Ids(last.solutions) = <<40, 27, 35, 1, 2>>
    /\ SortKey(last.solutions[2]) = SortKey(last.solutions[5])
    /\ FloatLess(SortKey(last.solutions[2]), SortKey(last.solutions[1]))

(* C27: brainstorm never awards the parameter bonus: for a principle with  *)
(* k keyword hits in the problem text, the confidence of its brainstorm    *)
(* solution is min(0.95, 0.6 + min(0.3, 0.1 * k)).                         *)
C27_BrainstormWithoutParamBonus ==
    last.op = "brainstorm" =>
        \A i \in 1..Len(last.solutions) :
            LET k == KeywordMatches(
                         principles(engine)[last.solutions[i].principle_id].keywords,
                         LowerStr(last.problem))
            IN  last.solutions[i].confidence
                    = FloatMin(F095,
                               FloatAdd(F06, FloatMin(F03, FloatMulInt(k, F01))))

(***************************************************************************)
(* Properties of the settings, of get_history and of the language.         *)
(***************************************************************************)
(* C26: starting from a config with max_solutions in 1..10, after any      *)
(* sequence of CLI settings operations (modify max solutions with any      *)
(* input, toggle history, toggle language) max_solutions is in 1..10; an   *)
(* out-of-range or non-numeric input leaves the whole config unchanged and *)
(* persists nothing.                                                       *)
C26_MaxSolutionsStaysInRange ==
    /\ [](engine = "cli" => config.max_solutions \in 1..10)
    /\ [][(/\ engine = "cli"
           /\ last'.op = "settings"
           /\ last'.input.choice = "1"
           /\ last'.input.typed \in {Typed.zero, Typed.eleven, Typed.minus_one,
                                     Typed.words, Typed.empty, Typed.decimal})
          => /\ config' = config
             /\ app'.config_file = app.config_file]_vars

(* 7 was stored, then 11 was typed: the config and config.json still say 7 *)
C26_Witness ==
    /\ engine = "cli"
    /\ last.op = "settings"
    /\ last.input.choice = "1"
    /\ last.input.typed = Typed.eleven
    /\ config.max_solutions = 7
    /\ app.config_file = StoredFile(config)

(* C28: for every history and every limit >= 0, get_history(limit) returns *)
(* exactly min(limit, len(history)) summaries: those of the most recent    *)
(* sessions, the newest first.                                             *)
C28_GetHistoryReturnsMostRecent ==
    last.op = "get_history" =>
        LET limit == last.input.limit
            n == Len(history)
            count == IF limit < n THEN limit ELSE n
        IN  /\ Len(last.output) = count
            /\ \A i \in 1..count :
                  /\ last.output[i].problem = history[n + 1 - i].problem
                  /\ last.output[i].solution_count
                        = Len(history[n + 1 - i].solutions)
                  /\ last.output[i].rating = history[n + 1 - i].user_rating

(* C29: after the resolution of the parameters in analyze_problem (the     *)
(* caller's values, auto-detection, the default worsening parameter), the  *)
(* resolved improving and worsening parameters are never the same          *)
(* non-empty parameter, for every problem text and every supplied pair     *)
(* with improving different from worsening.                                *)
C29_ResolvedParamsDiffer ==
    (last.op = "analyze" /\ last.improving # last.worsening) =>
        ~(/\ last.improving_param # <<>>
          /\ last.improving_param = last.worsening_param)

(* C30: in both engines a language-change operation (toggle_language of    *)
(* the CLI, set_language of the web core with a valid language) makes the  *)
(* selected language the active one and writes it to the persisted config, *)
(* and the engine created again from the persisted config has that         *)
(* language active; an invalid language leaves the current language and    *)
(* the config unchanged.  (Stated where config.json is written, that is,   *)
(* outside the serverless environment.)                                    *)
C30_LanguageSurvivesRestart ==
    [][/\ (~is_serverless /\ last'.op = "toggle_language")
          => LET selected == IF current_language = "en" THEN "zh" ELSE "en"
             IN  /\ current_language' = selected
                 /\ config'.language = selected
                 /\ app'.config_file.content.language = selected
       /\ (~is_serverless /\ last'.op = "set_language")
          => IF last'.input.language \in {"zh", "en"}
             THEN /\ current_language' = last'.input.language
                  /\ config'.language = last'.input.language
                  /\ app'.config_file.content.language = last'.input.language
             ELSE UNCHANGED <<current_language, config, app>>
       /\ (/\ ~is_serverless
           /\ last.op \in {"toggle_language", "set_language"}
           /\ last'.op = "restart")
          => current_language' = current_language]_vars
=============================================================================
